---------------------------- MODULE Spec2Model ----------------------------
(***************************************************************************)
(* Model of netFlameIoT: the HTTP-CGI client of stovectl/client.py (retry  *)
(* loop and tolerant response parser), the NetFlame operation codec of     *)
(* NetFlame/NetFlame.py and the discovery/polling worker of                *)
(* stoveApp/net.py.                                                        *)
(*                                                                         *)
(* Two specifications share the module:                                    *)
(*   SpecSend  one StoveClient and its send_operation retry loop, one      *)
(*             step per HTTP attempt and per time.sleep;                   *)
(*   Spec      the StoveWorker: the worker thread's tick handlers, one     *)
(*             step per blocking call, interleaved with the other          *)
(*             thread's request_* slots and stop().                        *)
(*                                                                         *)
(* Text is modelled as a sequence of tokens: a token is one character      *)
(* ("=", " ", "-", a digit) or one identifier taken as a unit ("error",    *)
(* "estado").  Optional[int] is a set: {} is None, {n} is the integer n.   *)
(***************************************************************************)
EXTENDS Integers, Sequences, FiniteSets, TLC

\* ------------------------------------------------------------------ bounds
\* Largest `retries` argument given to the StoveClient constructor.
MaxRetries == 3
\* Largest number of commands the producer leaves in the queue at once.
MaxQueue == 2
\* Largest number of commands the producer appends in one run.
MaxCommands == 3

\* ------------------------------------------------------- program constants
DefaultRetries == 3
GET_HOUR_OP_CODE == 1094
GET_ALARMS_OP_CODE == 1079
GET_DATA_OP_CODE == 1002
SET_HOUR_OP_CODE == 1095
SET_ON_OFF_OP_CODE == 1013
SET_TEMPERATURE_OP_CODE == 1019
SET_POWER_OP_CODE == 1004
SET_OPERATIVE_MODE_OP_CODE == 1081

\* ------------------------------------------------------------- text tokens
AsciiDigits == {"0", "1", "2", "3", "4", "5", "6", "7", "8", "9"}
\* "sup2" stands for U+00B2 (superscript two), a character for which
\* str.isdigit() is true and int() raises ValueError.
UnicodeDigits == {"sup2"}
Whitespace == {" "}

DigitVal(c) ==
    CASE c = "0" -> 0 [] c = "1" -> 1 [] c = "2" -> 2 [] c = "3" -> 3
      [] c = "4" -> 4 [] c = "5" -> 5 [] c = "6" -> 6 [] c = "7" -> 7
      [] c = "8" -> 8 [] c = "9" -> 9

\* str.strip(): leading and trailing whitespace removed.
RECURSIVE LStrip(_)
LStrip(s) ==
    IF s # <<>> /\ Head(s) \in Whitespace THEN LStrip(Tail(s)) ELSE s

RECURSIVE RStrip(_)
RStrip(s) ==
    IF s # <<>> /\ s[Len(s)] \in Whitespace
    THEN RStrip(SubSeq(s, 1, Len(s) - 1))
    ELSE s

Strip(s) == RStrip(LStrip(s))

\* str.isdigit(): non-empty and every character a digit character.
IsDigitStr(s) ==
    /\ s # <<>>
    /\ \A i \in DOMAIN s : s[i] \in AsciiDigits \cup UnicodeDigits

\* The digits of an int() literal, after strip() and an optional sign.
IntBody(s) ==
    LET t == Strip(s)
    IN  IF t # <<>> /\ Head(t) \in {"-", "+"} THEN Tail(t) ELSE t

\* int(s) does not raise ValueError.
IntParses(s) ==
    /\ IntBody(s) # <<>>
    /\ \A i \in DOMAIN IntBody(s) : IntBody(s)[i] \in AsciiDigits

RECURSIVE DigitsVal(_)
DigitsVal(d) ==
    IF d = <<>> THEN 0
    ELSE 10 * DigitsVal(SubSeq(d, 1, Len(d) - 1)) + DigitVal(d[Len(d)])

\* int(s), for s with IntParses(s).
IntVal(s) ==
    LET t == Strip(s)
    IN  IF t # <<>> /\ Head(t) = "-" THEN 0 - DigitsVal(IntBody(s))
        ELSE DigitsVal(IntBody(s))

\* ------------------------------------------------ StoveClient._parse_response
\* lines = [ln.strip() for ln in raw.splitlines() if ln.strip()]
RECURSIVE ResponseLines(_)
ResponseLines(raw) ==
    IF raw = <<>> THEN <<>>
    ELSE IF Strip(Head(raw)) = <<>> THEN ResponseLines(Tail(raw))
         ELSE <<Strip(Head(raw))>> \o ResponseLines(Tail(raw))

HasEq(ln) == \E i \in DOMAIN ln : ln[i] = "="

\* The split taken at the last "=" of the line instead of the first.
LastEq(ln) == CHOOSE i \in DOMAIN ln : ln[i] = "=" /\ \A j \in (i + 1)..Len(ln) : ln[j] # "="

FirstEq(ln) == CHOOSE i \in DOMAIN ln : ln[i] = "=" /\ \A j \in 1..(i - 1) : ln[j] # "="

\* k, v = ln.split("=", 1), both stripped.
LineKey(ln) == Strip(SubSeq(ln, 1, FirstEq(ln) - 1))
LineValue(ln) == Strip(SubSeq(ln, FirstEq(ln) + 1, Len(ln)))

\* The params dict: a later duplicate key overwrites an earlier one.
RECURSIVE ResponseParams(_)
ResponseParams(lines) ==
    IF lines = <<>> THEN <<>>
    ELSE LET n    == Len(lines)
             ln   == lines[n]
             rest == ResponseParams(SubSeq(lines, 1, n - 1))
         IN  IF HasEq(ln) /\ LineKey(ln) # <<>>
             THEN (LineKey(ln) :> LineValue(ln)) @@ rest
             ELSE rest

ErrorKeys ==
    << <<"error">>, <<"err">>, <<"codigo">>, <<"code">>, <<"resultado">>, <<"result">> >>

\* The search over ErrorKeys stopping at the first key present, numeric or not.
KeyErrorCodeNoSkip(params, i) ==
    LET present == {j \in i..Len(ErrorKeys) : ErrorKeys[j] \in DOMAIN params}
    IN  IF present = {} THEN {}
        ELSE LET k == CHOOSE j \in present : \A l \in present : j <= l
             IN  IF IntParses(params[ErrorKeys[k]])
                 THEN {IntVal(params[ErrorKeys[k]])} ELSE {}

\* The first key of ErrorKeys, from position i on, whose value int() accepts.
RECURSIVE KeyErrorCode(_, _)
KeyErrorCode(params, i) ==
    IF i > Len(ErrorKeys) THEN {}
    ELSE IF ErrorKeys[i] \in DOMAIN params /\ IntParses(params[ErrorKeys[i]])
         THEN {IntVal(params[ErrorKeys[i]])}
         ELSE KeyErrorCode(params, i + 1)

\* ln.isdigit() or (ln.startswith("-") and ln[1:].isdigit())
IsIntegerLine(ln) ==
    \/ IsDigitStr(ln)
    \/ (ln # <<>> /\ Head(ln) = "-" /\ IsDigitStr(Tail(ln)))

\* The lines the fallback loop can stop at: the first is the one it converts.
IntegerLines(lines) == {i \in DOMAIN lines : IsIntegerLine(lines[i])}

FirstIntegerLine(lines) ==
    lines[CHOOSE i \in IntegerLines(lines) : \A j \in IntegerLines(lines) : i <= j]

\* True when int(ln) of the fallback raises ValueError out of the parser.
ParseRaises(raw) ==
    LET lines == ResponseLines(raw)
    IN  /\ KeyErrorCode(ResponseParams(lines), 1) = {}
        /\ IntegerLines(lines) # {}
        /\ ~IntParses(FirstIntegerLine(lines))

ParsedErrorCode(raw) ==
    LET lines == ResponseLines(raw)
        byKey == KeyErrorCode(ResponseParams(lines), 1)
    IN  IF byKey # {} THEN byKey
        ELSE IF IntegerLines(lines) # {} /\ IntParses(FirstIntegerLine(lines))
             THEN {IntVal(FirstIntegerLine(lines))}
             ELSE {}

\* status_ok with an absent code taken as a failure.
StatusOkOnlyZero(error_code) == error_code = {0}

\* status_ok = (error_code == 0) if error_code is not None else True
StatusOk(error_code) == IF error_code # {} THEN error_code = {0} ELSE TRUE

\* The StoveResponse the parser returns (for raw with ~ParseRaises(raw)).
ParseResponse(operation_id, raw) ==
    [ operation_id |-> operation_id,
      status_ok    |-> StatusOk(ParsedErrorCode(raw)),
      error_code   |-> ParsedErrorCode(raw),
      params       |-> ResponseParams(ResponseLines(raw)),
      lines        |-> ResponseLines(raw),
      raw          |-> raw ]

\* --------------------------------------------------------- StoveClient state
VARIABLES
    retries,    \* self.retries
    spc,        \* position in send_operation: idle, post, sleep, done
    operation,  \* operation_id of the call in progress (0: none)
    extra,      \* the `extra` argument of the call in progress
    payload,    \* the form fields given to session.post
    attempt,    \* the loop variable `attempt`
    posts,      \* session.post calls made by the call in progress
    sleeps,     \* time.sleep(retry_delay_s) calls made by it
    parses,     \* _parse_response calls made by it
    raised,     \* exceptions that left the call
    hist,       \* what each session.post met: [kind, status, body]
    outcome,    \* none, return, TransportError, ProtocolError, OperationError
    resp,       \* the StoveResponse parsed by the call (NoResponse: none)
    hpc,            \* position in NetFlame.set_hour_now: idle, write, read, returned, raised
    epoch_seconds,  \* local `epoch_seconds` of set_hour_now (0: none)
    hora,           \* what set_hour_now ended with: the Hora returned or the exception
    calls           \* the send_operation calls of set_hour_now: [op, payload, outcome, resp]

clockVars == <<hpc, epoch_seconds, hora, calls>>

sendVars ==
    <<retries, spc, operation, extra, payload, attempt, posts, sleeps, parses,
      raised, hist, outcome, resp, hpc, epoch_seconds, hora, calls>>

\* ---------------------------------------------------------- StoveWorker state
VARIABLES
    username,                    \* config.USERNAME
    password,                    \* config.PASSWORD ({}: None)
    auth_mode,                   \* the auth_mode argument of StoveClient.__init__
    stop,                        \* self._stop
    client,                      \* self._client: "None" or "NetFlame"
    stoveInternalState,          \* _stoveInternalState of the NetFlame object
    stoveInternalOperativeMode,  \* _stoveInternalOperativeMode of that object
    ip,                          \* self._ip
    cmd_queue,                   \* self._cmd_queue
    cmd_lock,                    \* holder of self._cmd_lock: free, worker, ui
    discovery_timer,             \* self._discovery_timer.isActive()
    poll_timer,                  \* self._poll_timer.isActive()
    wpc,                         \* where the worker thread is
    found,                       \* local `ip` of _tick_discovery
    cmds,                        \* local `cmds` of _process_commands, rest to do
    call,                        \* the NetFlame method a command is inside
    pending,                     \* the write that method is sending ({}: none)
    data,                        \* local `data` of _tick_poll
    alarms,                      \* local `alarms` of _tick_poll
    tick,                        \* the handler running or run last
    events,                      \* signals emitted by that handler, in order
    reads,                       \* device reads of that handler, in order
    enq,                         \* commands appended so far (the n-th has id n)
    drained,                     \* ids a drain has copied out of the queue, in order
    cleared,                     \* ids the clearing branch has removed
    drains,                      \* critical sections of that handler: ids each took
    log,                         \* commands the loop is through with: [id, result]
    emptyDrains,                 \* drains in a row that found the queue empty: 0, 1, 2 (or more)
    session                      \* address of the last connected event if no disconnected
                                 \* event came after it ("": there is none)

workerVars ==
    <<username, password, auth_mode, stop, client, stoveInternalState,
      stoveInternalOperativeMode, ip, cmd_queue, cmd_lock, discovery_timer,
      poll_timer, wpc, found, cmds, call, pending, data, alarms, tick, events,
      reads, enq, drained, cleared, drains, log, emptyDrains, session>>

cfgVars == <<username, password, auth_mode>>
cacheVars == <<stoveInternalState, stoveInternalOperativeMode>>
timerVars == <<discovery_timer, poll_timer>>
queueVars == <<cmd_queue, cmd_lock>>
cmdVars == <<cmds, call, pending>>
pollVars == <<data, alarms>>
histVars == <<enq, drained, cleared, log, emptyDrains>>

\* self.retries = max(1, int(retries))
ClientRetries(r) == IF r > 1 THEN r ELSE 1

\* Raw bodies the device may answer with (a body is a sequence of lines).
Bodies ==
    { <<>>,
      << <<"error", "=", "0">> >>,
      << <<"error", "=", "3">> >>,
      << <<"error", "=", "x">>, <<"code", "=", "7">> >>,
      << <<"estado", "=", "7">>, <<"3">> >>,
      << <<" ">>, <<"-", "3">> >>,
      << <<"sup2">> >>,
      << <<"estado", "=", "7">>, <<" ", "0", " ">> >>,
      << <<"estado", "=", "7">>, <<"on_off", "=", "3">> >> }

\* Status codes session.post may hand back (redirects already followed).
Statuses == {200, 204, 304, 401, 404, 500}

\* What one session.post does: raise a requests.RequestException (timeout,
\* connection error) or return a response.
NetResults ==
    {[kind |-> "exc", status |-> 0, body |-> <<>>]}
        \cup [kind : {"resp"}, status : Statuses, body : Bodies]

\* if r.status_code == 401: raise StoveTransportError(...)
IsUnauthorizedNever(status) == FALSE
IsUnauthorized(status) == status = 401

\* r.raise_for_status() raises requests.HTTPError: a 4xx or 5xx status.
RaisesForStatus(status) == status >= 400 /\ status < 600

\* if resp.error_code is not None and resp.error_code != 0: raise StoveOperationError
IsOperationErrorNever(r) == FALSE
IsOperationError(r) == r.error_code # {} /\ r.error_code # {0}

\* if attempt < self.retries: time.sleep(...); continue
ShouldRetryAlways(a, n) == a <= n
ShouldRetry(a, n) == a < n

\* Which handler of the try statement one attempt ends in.
AttemptResultRetryAll(nr, op) ==
    CASE nr.kind = "exc" -> "RequestException"
      [] nr.kind = "resp" /\ IsUnauthorized(nr.status) -> "StoveTransportError"
      [] nr.kind = "resp" /\ ~IsUnauthorized(nr.status) /\ RaisesForStatus(nr.status)
            -> "RequestException"
      [] OTHER -> IF ParseRaises(nr.body) THEN "RequestException"
                  ELSE IF IsOperationError(ParseResponse(op, nr.body))
                       THEN "RequestException"
                       ELSE "return"

AttemptResult(nr, op) ==
    CASE nr.kind = "exc" -> "RequestException"
      [] nr.kind = "resp" /\ IsUnauthorized(nr.status) -> "StoveTransportError"
      [] nr.kind = "resp" /\ ~IsUnauthorized(nr.status) /\ RaisesForStatus(nr.status)
            -> "RequestException"
      [] OTHER -> IF ParseRaises(nr.body) THEN "ValueError"
                  ELSE IF IsOperationError(ParseResponse(op, nr.body))
                       THEN "StoveOperationError"
                       ELSE "return"

\* The attempt got as far as resp = self._parse_response(operation_id, raw).
ReachesParser(nr) ==
    nr.kind = "resp" /\ ~IsUnauthorized(nr.status) /\ ~RaisesForStatus(nr.status)

\* What the body of an attempt is to the parser: not read ("none"), a body
\* int() fails on ("raises"), one with a non-zero code ("nonzero"), or "ok".
BodyClass(nr) ==
    IF ~ReachesParser(nr) THEN "none"
    ELSE IF ParseRaises(nr.body) THEN "raises"
         ELSE IF ParsedErrorCode(nr.body) \notin {{}, {0}} THEN "nonzero"
              ELSE "ok"

NoResponse == ParseResponse(0, <<>>)

\* Values of the `extra` dict: a Python int or a Python str (as tokens).
PyInt(n) == [int |-> n]
PyStr(t) == [str |-> t]

DigitChar(d) ==
    CASE d = 0 -> "0" [] d = 1 -> "1" [] d = 2 -> "2" [] d = 3 -> "3"
      [] d = 4 -> "4" [] d = 5 -> "5" [] d = 6 -> "6" [] d = 7 -> "7"
      [] d = 8 -> "8" [] d = 9 -> "9"

\* str(n) for an int n >= 0.
RECURSIVE IntStr(_)
IntStr(n) ==
    IF n < 10 THEN <<DigitChar(n)>>
    ELSE Append(IntStr(n \div 10), DigitChar(n % 10))

\* str(v)
Str(v) == IF DOMAIN v = {"int"} THEN IntStr(v.int) ELSE v.str

\* payload = {"idOperacion": str(int(operation_id))}
\* payload.update({k: str(v) for k, v in extra.items()})
Payload(op, ex) ==
    [k \in DOMAIN ex \cup {<<"idOperacion">>} |->
        IF k \in DOMAIN ex THEN Str(ex[k]) ELSE IntStr(op)]

SendOps == {GET_DATA_OP_CODE, SET_ON_OFF_OP_CODE}
SendExtras == {<<>>, (<<"on_off">> :> PyInt(1))}

\* send_operation / send_operation_params, up to the first session.post.
SendBegin(op, ex) ==
    /\ spc = "idle"
    /\ spc' = "post"
    /\ operation' = op
    /\ extra' = ex
    /\ payload' = Payload(op, ex)
    /\ attempt' = 1
    /\ posts' = 0
    /\ sleeps' = 0
    /\ parses' = 0
    /\ raised' = 0
    /\ hist' = <<>>
    /\ outcome' = "none"
    /\ resp' = NoResponse
    /\ UNCHANGED <<retries, clockVars, workerVars>>

\* One iteration of the for loop: session.post and what follows it.
Post(nr) ==
    /\ spc = "post"
    /\ posts' = posts + 1
    /\ hist' = Append(hist, [kind |-> nr.kind, status |-> nr.status,
                              body |-> BodyClass(nr)])
    /\ parses' = IF ReachesParser(nr) THEN parses + 1 ELSE parses
    /\ resp' = IF ReachesParser(nr) /\ ~ParseRaises(nr.body)
               THEN ParseResponse(operation, nr.body) ELSE resp
    /\ LET res == AttemptResult(nr, operation)
       IN  CASE res = "return" ->
                    /\ outcome' = "return" /\ spc' = "done" /\ raised' = raised
             [] res = "StoveTransportError" ->
                    /\ outcome' = "TransportError" /\ spc' = "done"
                    /\ raised' = raised + 1
             [] res = "ValueError" ->
                    /\ outcome' = "ProtocolError" /\ spc' = "done"
                    /\ raised' = raised + 1
             [] res = "StoveOperationError" ->
                    /\ outcome' = "OperationError" /\ spc' = "done"
                    /\ raised' = raised + 1
             [] res = "RequestException" ->
                    IF ShouldRetry(attempt, retries)
                    THEN /\ spc' = "sleep" /\ outcome' = outcome
                         /\ raised' = raised
                    ELSE /\ outcome' = "TransportError" /\ spc' = "done"
                         /\ raised' = raised + 1
    /\ UNCHANGED <<retries, operation, extra, payload, attempt, sleeps, clockVars,
                   workerVars>>

\* time.sleep(self.retry_delay_s); continue
Sleep ==
    /\ spc = "sleep"
    /\ sleeps' = sleeps + 1
    /\ attempt' = attempt + 1
    /\ spc' = "post"
    /\ UNCHANGED <<retries, operation, extra, payload, posts, parses, raised,
                   hist, outcome, resp, clockVars, workerVars>>

\* The call has returned or raised: its frame is gone and the client is ready
\* for the next call.
SendEnd ==
    /\ spc = "done"
    /\ spc' = "idle"
    /\ operation' = 0
    /\ extra' = <<>>
    /\ payload' = <<>>
    /\ attempt' = 0
    /\ posts' = 0
    /\ sleeps' = 0
    /\ parses' = 0
    /\ raised' = 0
    /\ hist' = <<>>
    /\ outcome' = "none"
    /\ resp' = NoResponse
    /\ UNCHANGED <<retries, clockVars, workerVars>>

InitSend ==
    /\ retries \in {ClientRetries(r) : r \in 0..MaxRetries}
    /\ spc = "idle"
    /\ operation = 0
    /\ extra = <<>>
    /\ payload = <<>>
    /\ attempt = 0
    /\ posts = 0
    /\ sleeps = 0
    /\ parses = 0
    /\ raised = 0
    /\ hist = <<>>
    /\ outcome = "none"
    /\ resp = NoResponse
    /\ hpc = "idle"
    /\ epoch_seconds = 0
    /\ hora = <<>>
    /\ calls = <<>>

NextSend ==
    \/ \E op \in SendOps, ex \in SendExtras : SendBegin(op, ex)
    \/ \E nr \in NetResults : Post(nr)
    \/ Sleep
    \/ SendEnd


\* ------------------------------------------------------------ NetFlame codec
\* Temperatures are kept in tenths of a degree: 21.5 is 215.
\* float(s) accepts: an optional sign, digits, at most one "." (tokens of this
\* model: no exponent, inf or nan).
FloatBody(s) == IntBody(s)

DotCount(t) == Cardinality({i \in DOMAIN t : t[i] = "."})

FloatParses(s) ==
    LET t == FloatBody(s)
    IN  /\ \A i \in DOMAIN t : t[i] \in AsciiDigits \cup {"."}
        /\ DotCount(t) <= 1
        /\ \E i \in DOMAIN t : t[i] \in AsciiDigits

\* float(s) in tenths, for s with FloatParses(s) and at most one decimal.
FloatTenths(s) ==
    LET t    == FloatBody(s)
        dot  == IF DotCount(t) = 1 THEN CHOOSE i \in DOMAIN t : t[i] = "."
                ELSE Len(t) + 1
        whole == SubSeq(t, 1, dot - 1)
        fp   == SubSeq(t, dot + 1, Len(t))
        mag  == 10 * DigitsVal(whole) + (IF fp = <<>> THEN 0 ELSE DigitVal(fp[1]))
    IN  IF Strip(s) # <<>> /\ Head(Strip(s)) = "-" THEN 0 - mag ELSE mag

\* resp.params.get(key, default)
ParamGet(params, key, default) ==
    IF <<key>> \in DOMAIN params THEN params[<<key>>] ELSE default

MinusOne == <<"-", "1">>
Zero == <<"0">>

\* _return_state without the raw state -3 in its "Apagando estufa" branch.
ReturnStateWithoutMinusThree(state) ==
    CASE state = -1 -> "INVALID_STATE"
      [] state = 0 -> "POWER_OFF"
      [] state \in {1, 2, 3, 4, 10} -> "PREHEAT"
      [] state \in {5, 6} -> "HEATING"
      [] state = 7 -> "POWERED_ON"
      [] state \in {8, 11} -> "WAINTING_FOR_POWER_OFF"
      [] state = -20 -> "WAITING_FOR_PROGRAM_LOAD"
      [] state = -4 -> "ERROR_STATE"
      [] OTHER -> "INVALID_STATE"

\* NetFlame._return_state: the normalized public state of a raw state.
ReturnState(state) ==
    CASE state = -1 -> "INVALID_STATE"
      [] state = 0 -> "POWER_OFF"
      [] state \in {1, 2, 3, 4, 10} -> "PREHEAT"
      [] state \in {5, 6} -> "HEATING"
      [] state = 7 -> "POWERED_ON"
      [] state \in {8, 11, -3} -> "WAINTING_FOR_POWER_OFF"
      [] state = -20 -> "WAITING_FOR_PROGRAM_LOAD"
      [] state = -4 -> "ERROR_STATE"
      [] OTHER -> "INVALID_STATE"

\* NetFlame._return_operative_mode: the description of a raw mode.
ReturnOperativeMode(mode) ==
    CASE mode = 0 -> "Potencia"
      [] mode = 1 -> "Temperatura"
      [] mode = -1 -> "Error"
      [] OTHER -> "Emergencia"

\* NetFlame._return_alarma: the description of an alarm code.
ReturnAlarma(alarmCode) ==
    CASE alarmCode = <<"N">> -> "No hay alarmas"
      [] alarmCode = <<"A000">> -> "Estufa apagada con alarma"
      [] alarmCode = <<"A001">> -> "Depresion entrada de aire baja"
      [] alarmCode = <<"A002">> -> "Depresion entrada de aire alta"
      [] alarmCode = <<"A003">> -> "Temperatura salida de gases baja"
      [] alarmCode = <<"A004">> -> "Temperatura salida de gases alta"
      [] alarmCode = <<"A005">> -> "Temperatura sonda NTC baja"
      [] alarmCode = <<"A006">> -> "Temperatura sonda NTC alta"
      [] alarmCode = <<"A009">> -> "Temperatura ambiente baja"
      [] alarmCode = <<"A010">> -> "Temperatura ambiente alta"
      [] alarmCode = <<"A011">> -> "Temperatura CPU baja"
      [] alarmCode = <<"A012">> -> "Temperatura CPU alta"
      [] alarmCode = <<"A013">> -> "Corriente motores baja"
      [] alarmCode = <<"A014">> -> "Corriente motores alta"
      [] alarmCode = <<"A015">> -> "Depresion entrada de aire baja"
      [] alarmCode = <<"A016">> -> "Temperatura salida de gases muy alta"
      [] alarmCode = <<"A017">> -> "Temperatura sonda NTC muy alta"
      [] alarmCode = <<"A018">> -> "Fallo ventilador de humos"
      [] alarmCode = <<"A019">> -> "Ventilador a capacidad maxima"
      [] alarmCode = <<"A020">> -> "Error en sondas"
      [] alarmCode = <<"A099">> -> "Estufa sin combustible"
      [] OTHER -> "Alarma desconocida"

\* A send_operation call as its caller sees it: nr is what its last attempt met
\* (a requests exception there is the TransportError after the retries).
SendRaises(nr, op) == AttemptResult(nr, op) # "return"

\* NetFlame.get_data after send_operation returned r: which statement raises.
\*   "mode"  int(modo_operacion) or int(modo_func), before the cache is written
\*   "state" int(estado) of line 311, before the cache is written
\*   "data"  a conversion inside Stove_Data(...), after the cache is written
\*   "none"  get_data returns
GetDataRaisesAt(r) ==
    LET modeStr == ParamGet(r.params, "modo_operacion", MinusOne)
    IN  IF ~IntParses(modeStr) THEN "mode"
        ELSE IF IntVal(modeStr) = 1
                /\ ~IntParses(ParamGet(r.params, "modo_func", MinusOne))
             THEN "mode"
        ELSE IF ~IntParses(ParamGet(r.params, "estado", MinusOne)) THEN "state"
        ELSE IF \/ ~IntParses(ParamGet(r.params, "consigna_potencia", Zero))
                \/ ~FloatParses(ParamGet(r.params, "consigna_temperatura", Zero))
                \/ ~FloatParses(ParamGet(r.params, "temperatura", Zero))
             THEN "data"
        ELSE "none"

\* The functionalMode of get_data, as its raw mode.
FunctionalMode(r) ==
    LET mode == IntVal(ParamGet(r.params, "modo_operacion", MinusOne))
    IN  IF mode = 1
        THEN LET funcMode == IntVal(ParamGet(r.params, "modo_func", MinusOne))
             IN  IF funcMode = 1 THEN [mode |-> funcMode, description |-> "Temperatura"]
                 ELSE IF funcMode = -1 THEN [mode |-> funcMode, description |-> "Error"]
                 ELSE [mode |-> funcMode, description |-> "Potencia"]
        ELSE IF mode = -1 THEN [mode |-> -1, description |-> "Error"]
        ELSE [mode |-> 0, description |-> "Potencia"]

\* The Stove_Data get_data returns (for r with GetDataRaisesAt(r) = "none").
StoveData(r) ==
    LET mode  == IntVal(ParamGet(r.params, "modo_operacion", MinusOne))
        state == IntVal(ParamGet(r.params, "estado", MinusOne))
    IN  [ statusOn            |-> ParamGet(r.params, "on_off", Zero) = <<"1">>,
          operativeMode       |-> [mode |-> mode,
                                   description |-> ReturnOperativeMode(mode)],
          functionalMode      |-> FunctionalMode(r),
          powerSetpoint       |-> IntVal(ParamGet(r.params, "consigna_potencia", Zero)),
          temperatureSetpoint |-> FloatTenths(ParamGet(r.params, "consigna_temperatura", Zero)),
          currentTemperature  |-> FloatTenths(ParamGet(r.params, "temperatura", Zero)),
          state               |-> [state |-> state,
                                   publicState |-> ReturnState(state)] ]

\* self._stoveInternalState / _stoveInternalOperativeMode after get_data on r.
CacheWritten(r) == GetDataRaisesAt(r) \in {"data", "none"}
CachedState(r) == IntVal(ParamGet(r.params, "estado", MinusOne))
CachedMode(r) == IntVal(ParamGet(r.params, "modo_operacion", MinusOne))

NoData == <<>>
NoAlarms == <<>>

\* NetFlame.get_alarms after send_operation returned r.
GetAlarms(r) ==
    LET code == ParamGet(r.params, "get_alarmas", <<"N">>)
    IN  [code |-> code, description |-> ReturnAlarma(code)]

\* The fields of the Hora dataclass.
HoraFields == <<"hh", "mm", "raw">>

\* Hora(*args): the generated __init__ takes one argument per field and raises
\* TypeError for any other number of positional arguments.
HoraRaises(args) == Len(args) # Len(HoraFields)
Hora(args) == [i \in 1..Len(HoraFields) |-> args[i]]

\* Seconds Europe/Madrid is ahead of UTC (standard time; the daylight saving
\* hour is left out).
MadridOffset == 3600

\* The arguments get_hour gives to Hora: hour, minute, "%H:%M", "%d %B %Y"
\* (the two labels kept as the values they are formatted from).
HoraArgs(epoch) ==
    LET local == epoch + MadridOffset
        hh    == (local \div 3600) % 24
        mm    == (local \div 60) % 60
    IN  <<hh, mm, <<hh, mm>>, local \div 86400>>

\* get_hour reading a missing int_rx as the epoch 0, the way get_data reads a
\* missing field as its default.
GetHourRaisesDefaultsEpoch(r) ==
    IF <<"int_rx">> \notin DOMAIN r.params
    THEN IF HoraRaises(HoraArgs(0)) THEN "TypeError" ELSE "none"
    ELSE IF ~IntParses(r.params[<<"int_rx">>]) THEN "StoveOperationError"
    ELSE IF HoraRaises(HoraArgs(IntVal(r.params[<<"int_rx">>]))) THEN "TypeError"
    ELSE "none"

\* NetFlame.get_hour after send_operation returned r: the exception it raises,
\* or "none".
GetHourRaises(r) ==
    IF <<"int_rx">> \notin DOMAIN r.params THEN "StoveOperationError"
    ELSE IF ~IntParses(r.params[<<"int_rx">>]) THEN "StoveOperationError"
    ELSE IF HoraRaises(HoraArgs(IntVal(r.params[<<"int_rx">>]))) THEN "TypeError"
    ELSE "none"

GetHour(r) == Hora(HoraArgs(IntVal(r.params[<<"int_rx">>])))

\* config.REFERENCE_MAC and the addresses and hardware addresses of a scan.
REFERENCE_MAC == "Aa:Bb"

\* str.upper() on the hardware addresses of the model.
Upper(m) ==
    CASE m \in {"aa:bb", "Aa:Bb", "AA:BB"} -> "AA:BB"
      [] m \in {"cc:dd", "CC:DD"} -> "CC:DD"
      [] OTHER -> m

\* What scan_network returns: a non-empty dict ip -> info, in insertion order
\* ("mac" is a set: {} when the entry has none), or "LanScanError" raised.
Scans ==
    { << [ip |-> "10.0.0.5", mac |-> {"aa:bb"}] >>,
      << [ip |-> "10.0.0.5", mac |-> {"AA:BB"}] >>,
      << [ip |-> "10.0.0.9", mac |-> {"cc:dd"}] >>,
      << [ip |-> "10.0.0.9", mac |-> {}], [ip |-> "10.0.0.7", mac |-> {"AA:BB"}] >>,
      << [ip |-> "10.0.0.9", mac |-> {}] >> }

\* mac = (info.get("mac") or "").upper()
EntryMac(info) == IF info.mac = {} THEN "" ELSE Upper(CHOOSE m \in info.mac : TRUE)

\* StoveWorker._discover_ip: the first entry whose address matches, or "".
DiscoverIp(devices) ==
    LET hits == {i \in DOMAIN devices : EntryMac(devices[i]) = Upper(REFERENCE_MAC)}
    IN  IF hits = {} THEN ""
        ELSE devices[CHOOSE i \in hits : \A j \in hits : i <= j].ip

\* The auth_mode values StoveClient.__init__ knows, and one it does not.
AuthModes == {"basic", "digest", "none", "token"}

\* The constructor with every mode but these two credentials in place.
ClientInitRaisesUnknownOnly(mode, u, pw) == mode \notin {"basic", "digest", "none"}

\* StoveClient.__init__, the authentication block: basic and digest raise
\* ValueError `if not username or password is None`, "none" raises nothing,
\* any other mode raises ValueError.
ClientInitRaises(mode, u, pw) ==
    CASE mode \in {"basic", "digest"} -> u = "" \/ pw = {}
      [] mode = "none" -> FALSE
      [] OTHER -> TRUE

\* StoveClient.__init__ with auth_mode="basic":
\* if not username or password is None: raise ValueError
ConstructRaises(u, pw) == u = "" \/ pw = {}

\* Telemetry (1002), alarm (1079) and clock (1094) bodies of the device.
DataBodies ==
    { << <<"estado", "=", "7">>, <<"on_off", "=", "1">>,
         <<"consigna_temperatura", "=", "2", "1", ".", "5">>,
         <<"temperatura", "=", "2", "0", ".", "8">>,
         <<"modo_operacion", "=", "1">> >>,
      << <<"estado", "=", "0">>, <<"on_off", "=", "0">>,
         <<"consigna_potencia", "=", "9">>, <<"modo_operacion", "=", "0">> >>,
      <<>>,
      << <<"error", "=", "3">> >>,
      << <<"estado", "=", "7">>, <<"modo_operacion", "=", "1">>,
         <<"consigna_potencia", "=", "x">> >> }

AlarmBodies == { <<>>, << <<"get_alarmas", "=", "A001">> >> }

HourBodies == { <<>>, << <<"int_rx", "=", "1", "7", "6", "7", "7", "8", "0", "4", "2", "0">> >> }

WriteBodies == { <<>>, << <<"error", "=", "3">> >> }

\* The operation ids of the writes the worker's commands send.
WriteOps ==
    {SET_ON_OFF_OP_CODE, SET_TEMPERATURE_OP_CODE, SET_POWER_OP_CODE,
     SET_OPERATIVE_MODE_OP_CODE}

\* What a send_operation call of the worker ends with: the requests exception
\* of its last attempt, or a 200 response with one of `bodies`.
Replies(bodies) ==
    {[kind |-> "exc", status |-> 0, body |-> <<>>]}
        \cup [kind : {"resp"}, status : {200}, body : bodies]

\* The class of the exception a send_operation call raises on nr.
SendError(nr, op) ==
    CASE AttemptResult(nr, op) = "ValueError" -> "StoveProtocolError"
      [] AttemptResult(nr, op) = "StoveOperationError" -> "StoveOperationError"
      [] OTHER -> "StoveTransportError"

\* Queue items: ("inc", delta) / ("dec", delta) / ("power", bool) / ("mode", bool),
\* delta in tenths of a degree.  `stale` records that the item was appended
\* while self._client was None.
Commands ==
    { <<"inc", 1>>, <<"dec", 1>>, <<"power", TRUE>>, <<"power", FALSE>>,
      <<"mode", TRUE>>, <<"mode", FALSE>> }

Connected(addr) == [name |-> "connected", arg |-> addr]
Disconnected(reason) == [name |-> "disconnected", arg |-> reason]
Snapshot(snap) == [name |-> "snapshot", arg |-> snap]

\* A device request of the worker thread is in flight.
InFlight ==
    wpc \in {"d_validate_wait", "p_cmd_read", "p_cmd_write", "p_data_wait",
             "p_alarms_wait", "p_hour_wait"}

InitWorker ==
    /\ username \in {"", "stove"}
    /\ password \in {{}, {"secret"}}
    /\ stop = FALSE
    /\ client = "None"
    /\ stoveInternalState = -1
    /\ stoveInternalOperativeMode = -1
    /\ ip = ""
    /\ cmd_queue = <<>>
    /\ cmd_lock = "free"
    /\ discovery_timer = FALSE
    /\ poll_timer = FALSE
    /\ wpc = "new"
    /\ found = ""
    /\ cmds = <<>>
    /\ call = "none"
    /\ pending = {}
    /\ data = NoData
    /\ alarms = NoAlarms
    /\ tick = "none"
    /\ events = <<>>
    /\ reads = <<>>
    /\ enq = 0
    /\ drained = <<>>
    /\ session = ""
    /\ cleared = {}
    /\ drains = <<>>
    /\ log = <<>>
    /\ emptyDrains = 0

\* StoveWorker.start (QThread.started, on the worker thread).
Start ==
    /\ wpc = "new"
    /\ wpc' = "idle"
    /\ stop' = FALSE
    /\ client' = "None"
    /\ ip' = ""
    /\ discovery_timer' = TRUE
    /\ UNCHANGED <<sendVars, cfgVars, histVars, drains, cacheVars, queueVars, poll_timer, found, cmdVars,
                   pollVars, tick, events, session, reads>>

\* StoveWorker.stop, called from the main thread.
Stop ==
    /\ wpc # "new"
    /\ ~stop
    /\ stop' = TRUE
    /\ discovery_timer' = FALSE
    /\ poll_timer' = FALSE
    /\ client' = "None"
    /\ ip' = ""
    /\ UNCHANGED <<sendVars, cfgVars, histVars, drains, cacheVars, queueVars, wpc, found, cmdVars, pollVars,
                   tick, events, session, reads>>

\* The ids of the items of a queue, as a sequence and as a set.
IdSeq(q) == [i \in DOMAIN q |-> q[i].id]

Ids(q) == {q[i].id : i \in DOMAIN q}

\* request_* entering its critical section without the lock.
RequestLockNoWait ==
    /\ cmd_lock # "ui"
    /\ Len(cmd_queue) + Len(cmds) < MaxQueue
    /\ enq < MaxCommands
    /\ cmd_lock' = "ui"
    /\ UNCHANGED <<sendVars, cfgVars, histVars, drains, stop, client, cacheVars,
                   ip, cmd_queue, timerVars, wpc, found, cmdVars, pollVars,
                   tick, events, session, reads>>

\* request_*: `with self._cmd_lock:` entered by the producer thread.
RequestLock ==
    /\ cmd_lock = "free"
    /\ Len(cmd_queue) + Len(cmds) < MaxQueue
    /\ enq < MaxCommands
    /\ cmd_lock' = "ui"
    /\ UNCHANGED <<sendVars, cfgVars, histVars, drains, stop, client, cacheVars,
                   ip, cmd_queue, timerVars, wpc, found, cmdVars, pollVars,
                   tick, events, session, reads>>

\* request_*: self._cmd_queue.append((cmd, val)) and the lock released.
RequestAppend(c) ==
    /\ cmd_lock = "ui"
    /\ enq' = enq + 1
    /\ cmd_queue' = Append(cmd_queue,
                           [cmd |-> c[1], val |-> c[2], stale |-> client = "None",
                            id |-> enq + 1])
    /\ cmd_lock' = "free"
    /\ UNCHANGED <<sendVars, cfgVars, drained, cleared, log, emptyDrains, drains, stop, client,
                   cacheVars, ip, timerVars, wpc, found, cmdVars, pollVars,
                   tick, events, session, reads>>

\* The except clause of _tick_discovery without `self._client = None`.
DiscoveryFailKeepsClient(reason) ==
    /\ events' = Append(events, Disconnected(reason))
    /\ session' = ""
    /\ client' = client
    /\ ip' = ip
    /\ wpc' = "idle"
    /\ found' = ""

\* The except clause of _tick_discovery.
DiscoveryFail(reason) ==
    /\ events' = Append(events, Disconnected(reason))
    /\ session' = ""
    /\ client' = "None"
    /\ ip' = ""
    /\ wpc' = "idle"
    /\ found' = ""

\* _tick_discovery without the look at self._stop.
TickDiscoveryIgnoresStop ==
    /\ wpc = "idle"
    /\ discovery_timer
    /\ tick' = "discovery"
    /\ events' = <<>>
    /\ UNCHANGED session
    /\ reads' = <<>>
    /\ wpc' = IF client # "None" THEN "idle" ELSE "d_scan"
    /\ drains' = <<>>
    /\ UNCHANGED <<sendVars, cfgVars, histVars, stop, client, cacheVars, ip, queueVars, timerVars,
                   found, cmdVars, pollVars>>

\* _tick_discovery, from the timeout of the discovery timer to the scan.
TickDiscovery ==
    /\ wpc = "idle"
    /\ discovery_timer
    /\ tick' = "discovery"
    /\ events' = <<>>
    /\ UNCHANGED session
    /\ reads' = <<>>
    /\ wpc' = IF stop \/ client # "None" THEN "idle" ELSE "d_scan"
    /\ drains' = <<>>
    /\ UNCHANGED <<sendVars, cfgVars, histVars, stop, client, cacheVars, ip, queueVars, timerVars,
                   found, cmdVars, pollVars>>

\* scan_network raised LanScanError inside _discover_ip.
ScanFails ==
    /\ wpc = "d_scan"
    /\ DiscoveryFail("LanScanError")
    /\ UNCHANGED <<sendVars, cfgVars, histVars, drains, stop, cacheVars, queueVars, timerVars, cmdVars,
                   pollVars, tick, reads>>

\* _discover_ip returned: `if not ip: return`, else on to the validation.
ScanReturns(devices) ==
    /\ wpc = "d_scan"
    /\ found' = DiscoverIp(devices)
    /\ wpc' = IF DiscoverIp(devices) = "" THEN "idle" ELSE "d_construct"
    /\ UNCHANGED <<sendVars, cfgVars, histVars, drains, stop, client, cacheVars, ip, queueVars, timerVars,
                   cmdVars, pollVars, tick, events, session, reads>>

\* The client installed with the cached values of the one before it.
ConstructKeepsCache ==
    /\ wpc = "d_construct"
    /\ IF ConstructRaises(username, password)
       THEN /\ DiscoveryFail("ValueError")
            /\ UNCHANGED cacheVars
       ELSE /\ ip' = found
            /\ client' = "NetFlame"
            /\ UNCHANGED cacheVars
            /\ wpc' = "d_validate"
            /\ UNCHANGED <<found, events, session>>
    /\ UNCHANGED <<sendVars, cfgVars, histVars, drains, stop, queueVars, timerVars, cmdVars, pollVars, tick,
                   reads>>

\* self._ip = ip; self._client = NetFlame(...): NetFlame.__init__ sets both
\* cached values to -1.
Construct ==
    /\ wpc = "d_construct"
    /\ IF ConstructRaises(username, password)
       THEN /\ DiscoveryFail("ValueError")
            /\ UNCHANGED cacheVars
       ELSE /\ ip' = found
            /\ client' = "NetFlame"
            /\ stoveInternalState' = -1
            /\ stoveInternalOperativeMode' = -1
            /\ wpc' = "d_validate"
            /\ UNCHANGED <<found, events, session>>
    /\ UNCHANGED <<sendVars, cfgVars, histVars, drains, stop, queueVars, timerVars, cmdVars, pollVars, tick,
                   reads>>

\* _ = self._client.get_data(): the call is made.
ValidateCall ==
    /\ wpc = "d_validate"
    /\ IF client = "None"
       THEN DiscoveryFail("AttributeError")
       ELSE /\ wpc' = "d_validate_wait"
            /\ UNCHANGED <<client, ip, found, events, session>>
    /\ UNCHANGED <<sendVars, cfgVars, histVars, drains, stop, cacheVars, queueVars, timerVars, cmdVars,
                   pollVars, tick, reads>>

\* get_data returns normally on nr.
GetDataReturns(nr) ==
    /\ ~SendRaises(nr, GET_DATA_OP_CODE)
    /\ GetDataRaisesAt(ParseResponse(GET_DATA_OP_CODE, nr.body)) = "none"

\* The exception get_data raises on nr.
GetDataError(nr) ==
    IF SendRaises(nr, GET_DATA_OP_CODE) THEN SendError(nr, GET_DATA_OP_CODE)
    ELSE "ValueError"

\* get_data on nr, decoded once: whether it returns, the exception it raises
\* otherwise, what it writes to the cache, and the Stove_Data it returns.
DataOutcome(nr) ==
    LET r == ParseResponse(GET_DATA_OP_CODE, nr.body)
    IN  [ reply   |-> nr,
          returns |-> GetDataReturns(nr),
          error   |-> GetDataError(nr),
          written |-> ~SendRaises(nr, GET_DATA_OP_CODE) /\ CacheWritten(r),
          state   |-> IF ~SendRaises(nr, GET_DATA_OP_CODE) /\ CacheWritten(r)
                      THEN CachedState(r) ELSE -1,
          mode    |-> IF ~SendRaises(nr, GET_DATA_OP_CODE) /\ CacheWritten(r)
                      THEN CachedMode(r) ELSE -1,
          data    |-> IF GetDataReturns(nr) THEN StoveData(r) ELSE NoData ]

DataOutcomes == {DataOutcome(nr) : nr \in Replies(DataBodies)}

\* What get_data leaves in the cache of the NetFlame object.
CacheAfter(o) ==
    IF o.written
    THEN /\ stoveInternalState' = o.state
         /\ stoveInternalOperativeMode' = o.mode
    ELSE UNCHANGED cacheVars

\* One device read of a handler: the device answered it with a well-formed
\* success response, the NetFlame method returned, and what it returned.
ReadOf(op, answered, returned, value) ==
    [op |-> op, answered |-> answered, returned |-> returned, value |-> value]

\* The validating get_data is over: connected and the timers switched, or the
\* except clause.
ValidateReturnsAlwaysConnects(o) ==
    /\ wpc = "d_validate_wait"
    /\ CacheAfter(o)
    /\ reads' = Append(reads, ReadOf(GET_DATA_OP_CODE, o.returns,
                                     o.returns, o.data))
    /\ events' = Append(events, Connected(found))
    /\ session' = found
    /\ discovery_timer' = FALSE
    /\ poll_timer' = TRUE
    /\ wpc' = "idle"
    /\ found' = ""
    /\ UNCHANGED <<client, ip>>
    /\ UNCHANGED <<sendVars, cfgVars, histVars, drains, stop, queueVars, cmdVars, pollVars, tick>>

ValidateReturns(o) ==
    /\ wpc = "d_validate_wait"
    /\ CacheAfter(o)
    /\ reads' = Append(reads, ReadOf(GET_DATA_OP_CODE, o.returns,
                                     o.returns, o.data))
    /\ IF o.returns
       THEN /\ events' = Append(events, Connected(found))
            /\ session' = found
            /\ discovery_timer' = FALSE
            /\ poll_timer' = TRUE
            /\ wpc' = "idle"
            /\ found' = ""
            /\ UNCHANGED <<client, ip>>
       ELSE /\ DiscoveryFail(o.error)
            /\ UNCHANGED timerVars
    /\ UNCHANGED <<sendVars, cfgVars, histVars, drains, stop, queueVars, cmdVars, pollVars, tick>>

\* The except clause of _tick_poll (the locals of the tick are gone with it).
PollFailKeepPolling(reason) ==
    /\ events' = Append(events, Disconnected(reason))
    /\ session' = ""
    /\ wpc' = "idle"
    /\ data' = NoData
    /\ alarms' = NoAlarms
    /\ UNCHANGED <<timerVars, client, ip>>

\* The except clause of _tick_poll without the restart of the discovery timer.
PollFailNoRediscovery(reason) ==
    /\ events' = Append(events, Disconnected(reason))
    /\ session' = ""
    /\ poll_timer' = FALSE
    /\ client' = "None"
    /\ ip' = ""
    /\ discovery_timer' = discovery_timer
    /\ wpc' = "idle"
    /\ data' = NoData
    /\ alarms' = NoAlarms

\* The except clause of _tick_poll without disconnected.emit.
PollFailSilent(reason) ==
    /\ UNCHANGED <<events, session>>
    /\ poll_timer' = FALSE
    /\ client' = "None"
    /\ ip' = ""
    /\ discovery_timer' = TRUE
    /\ wpc' = "idle"
    /\ data' = NoData
    /\ alarms' = NoAlarms

PollFail(reason) ==
    /\ events' = Append(events, Disconnected(reason))
    /\ session' = ""
    /\ poll_timer' = FALSE
    /\ client' = "None"
    /\ ip' = ""
    /\ discovery_timer' = TRUE
    /\ wpc' = "idle"
    /\ data' = NoData
    /\ alarms' = NoAlarms

\* _tick_poll entered on the timeout while another handler is still running.
TickPollReentrant ==
    /\ poll_timer
    /\ tick' = "poll"
    /\ events' = <<>>
    /\ UNCHANGED session
    /\ reads' = <<>>
    /\ wpc' = IF stop \/ client = "None" THEN "idle" ELSE "p_commands"
    /\ drains' = <<>>
    /\ UNCHANGED <<sendVars, cfgVars, histVars, stop, client, cacheVars, ip,
                   queueVars, timerVars, found, cmdVars, pollVars>>

\* _tick_poll, from the timeout of the poll timer to _process_commands.
TickPoll ==
    /\ wpc = "idle"
    /\ poll_timer
    /\ tick' = "poll"
    /\ events' = <<>>
    /\ UNCHANGED session
    /\ reads' = <<>>
    /\ wpc' = IF stop \/ client = "None" THEN "idle" ELSE "p_commands"
    /\ drains' = <<>>
    /\ UNCHANGED <<sendVars, cfgVars, histVars, stop, client, cacheVars, ip, queueVars, timerVars,
                   found, cmdVars, pollVars>>

\* _process_commands: `if not self._client:` chooses the branch.
ProcessCommandsCheck ==
    /\ wpc = "p_commands"
    /\ wpc' = IF client = "None" THEN "p_clear_lock" ELSE "p_drain_lock"
    /\ UNCHANGED <<sendVars, cfgVars, histVars, drains, stop, client, cacheVars, ip, queueVars, timerVars,
                   found, cmdVars, pollVars, tick, events, session, reads>>

\* `with self._cmd_lock:` entered by the worker thread.
ProcessCommandsLock ==
    /\ wpc \in {"p_clear_lock", "p_drain_lock"}
    /\ cmd_lock = "free"
    /\ cmd_lock' = "worker"
    /\ wpc' = IF wpc = "p_clear_lock" THEN "p_clear" ELSE "p_drain"
    /\ UNCHANGED <<sendVars, cfgVars, histVars, drains, stop, client, cacheVars, ip, cmd_queue, timerVars,
                   found, cmdVars, pollVars, tick, events, session, reads>>

\* self._cmd_queue.clear(); return -- and _tick_poll goes on to
\* self._client.get_data() with no client.
ClearQueue ==
    /\ wpc = "p_clear"
    /\ cleared' = cleared \cup Ids(cmd_queue)
    /\ drains' = Append(drains, <<>>)
    /\ emptyDrains' = IF cmd_queue # <<>> THEN 0
                      ELSE IF emptyDrains = 0 THEN 1 ELSE 2
    /\ cmd_queue' = <<>>
    /\ cmd_lock' = "free"
    /\ PollFail("AttributeError")
    /\ UNCHANGED <<sendVars, cfgVars, enq, drained, log, stop, cacheVars, found,
                   cmdVars, tick, reads>>

\* cmds = list(self._cmd_queue), in the opposite order.
DrainQueueReversed ==
    /\ wpc = "p_drain"
    /\ cmds' = [i \in DOMAIN cmd_queue |-> cmd_queue[Len(cmd_queue) + 1 - i]]
    /\ drained' = drained \o IdSeq(cmd_queue)
    /\ drains' = Append(drains, IdSeq(cmd_queue))
    /\ emptyDrains' = IF cmd_queue # <<>> THEN 0
                      ELSE IF emptyDrains = 0 THEN 1 ELSE 2
    /\ wpc' = "p_drain_clear"
    /\ UNCHANGED <<sendVars, cfgVars, enq, cleared, log, stop, client, cacheVars,
                   ip, queueVars, timerVars, found, call, pending, pollVars,
                   tick, events, session, reads>>

\* cmds = list(self._cmd_queue), with a signal emitted for every drain.
DrainQueueAnnounced ==
    /\ wpc = "p_drain"
    /\ cmds' = cmd_queue
    /\ drained' = drained \o IdSeq(cmd_queue)
    /\ drains' = Append(drains, IdSeq(cmd_queue))
    /\ emptyDrains' = IF cmd_queue # <<>> THEN 0
                      ELSE IF emptyDrains = 0 THEN 1 ELSE 2
    /\ events' = Append(events, [name |-> "log", arg |-> "Draining"])
    /\ UNCHANGED session
    /\ wpc' = "p_drain_clear"
    /\ UNCHANGED <<sendVars, cfgVars, enq, cleared, log, stop, client, cacheVars,
                   ip, queueVars, timerVars, found, call, pending, pollVars,
                   tick, reads>>

\* cmds = list(self._cmd_queue)
DrainQueue ==
    /\ wpc = "p_drain"
    /\ cmds' = cmd_queue
    /\ drained' = drained \o IdSeq(cmd_queue)
    /\ drains' = Append(drains, IdSeq(cmd_queue))
    /\ emptyDrains' = IF cmd_queue # <<>> THEN 0
                      ELSE IF emptyDrains = 0 THEN 1 ELSE 2
    /\ wpc' = "p_drain_clear"
    /\ UNCHANGED <<sendVars, cfgVars, enq, cleared, log, stop, client, cacheVars,
                   ip, queueVars, timerVars, found, call, pending, pollVars,
                   tick, events, session, reads>>

\* self._cmd_queue.clear(), with the lock kept for the loop over the commands.
DrainClearKeepsLock ==
    /\ wpc = "p_drain_clear"
    /\ cmd_queue' = <<>>
    /\ cmd_lock' = cmd_lock
    /\ wpc' = "p_cmd"
    /\ UNCHANGED <<sendVars, cfgVars, histVars, drains, stop, client, cacheVars,
                   ip, timerVars, found, cmdVars, pollVars, tick, events, session, reads>>

\* self._cmd_queue.clear(), and the `with` block releases the lock.
DrainClear ==
    /\ wpc = "p_drain_clear"
    /\ cmd_queue' = <<>>
    /\ cmd_lock' = "free"
    /\ wpc' = "p_cmd"
    /\ UNCHANGED <<sendVars, cfgVars, histVars, drains, stop, client, cacheVars,
                   ip, timerVars, found, cmdVars, pollVars, tick, events, session, reads>>

\* MethodFor with the toggle going on from temperature mode to emergency mode.
MethodForThreeModes(c, m) ==
    CASE c.cmd = "inc" ->
            IF m = -1 THEN "none"
            ELSE IF m = 0 THEN "increase_power" ELSE "increase_temperature"
      [] c.cmd = "dec" ->
            IF m = -1 THEN "none"
            ELSE IF m = 0 THEN "decrease_power" ELSE "decrease_temperature"
      [] c.cmd = "power" -> IF c.val THEN "power_on" ELSE "power_off"
      [] c.cmd = "mode" ->
            IF c.val
            THEN IF m = 0 THEN "set_temperature_mode"
                 ELSE IF m = 1 THEN "set_emergency_mode" ELSE "set_power_mode"
            ELSE "none"

\* MethodFor without the `continue` on an unknown mode.
MethodForNoSkip(c, m) ==
    CASE c.cmd = "inc" ->
            IF m = 0 THEN "increase_power" ELSE "increase_temperature"
      [] c.cmd = "dec" ->
            IF m = 0 THEN "decrease_power" ELSE "decrease_temperature"
      [] c.cmd = "power" -> IF c.val THEN "power_on" ELSE "power_off"
      [] c.cmd = "mode" ->
            IF c.val
            THEN IF m = 0 THEN "set_temperature_mode" ELSE "set_power_mode"
            ELSE "none"

\* The NetFlame method the loop body calls for command c with cached mode m
\* ("none": the body does nothing for it).
MethodFor(c, m) ==
    CASE c.cmd = "inc" ->
            IF m = -1 THEN "none"
            ELSE IF m = 0 THEN "increase_power" ELSE "increase_temperature"
      [] c.cmd = "dec" ->
            IF m = -1 THEN "none"
            ELSE IF m = 0 THEN "decrease_power" ELSE "decrease_temperature"
      [] c.cmd = "power" -> IF c.val THEN "power_on" ELSE "power_off"
      [] c.cmd = "mode" ->
            IF c.val
            THEN IF m = 0 THEN "set_temperature_mode" ELSE "set_power_mode"
            ELSE "none"

\* The body reads an attribute of self._client for command c.
TouchesClient(c) == c.cmd \in {"inc", "dec", "power"} \/ (c.cmd = "mode" /\ c.val)

\* One command is over, and a failed one goes back to the end of the batch.
NextCommandRetryFailed(result) ==
    /\ log' = Append(log, [id |-> Head(cmds).id, result |-> result])
    /\ cmds' = IF result = "failed" THEN Append(Tail(cmds), Head(cmds))
               ELSE Tail(cmds)
    /\ call' = "none"
    /\ pending' = {}
    /\ wpc' = "p_cmd"

\* One command is over, and a failed one ends the loop.
NextCommandAbortOnFail(result) ==
    /\ log' = Append(log, [id |-> Head(cmds).id, result |-> result])
    /\ cmds' = IF result = "failed" THEN <<>> ELSE Tail(cmds)
    /\ call' = "none"
    /\ pending' = {}
    /\ wpc' = "p_cmd"

\* One command is over: "done", "skipped" (continue, or no branch taken), or
\* "failed" (its exception caught and logged).
NextCommand(result) ==
    /\ log' = Append(log, [id |-> Head(cmds).id, result |-> result])
    /\ cmds' = Tail(cmds)
    /\ call' = "none"
    /\ pending' = {}
    /\ wpc' = "p_cmd"

\* for cmd, val in cmds: the body up to the get_data of the called method.
CommandDispatch ==
    /\ wpc = "p_cmd"
    /\ cmds # <<>>
    /\ IF client = "None" /\ TouchesClient(Head(cmds))
       THEN NextCommand("failed")
       ELSE IF MethodFor(Head(cmds), stoveInternalOperativeMode) = "none"
            THEN NextCommand("skipped")
            ELSE /\ call' = MethodFor(Head(cmds), stoveInternalOperativeMode)
                 /\ wpc' = "p_cmd_read"
                 /\ UNCHANGED <<cmds, pending, log>>
    /\ UNCHANGED <<sendVars, cfgVars, enq, drained, cleared, drains, emptyDrains, stop, client, cacheVars, ip, queueVars, timerVars,
                   found, pollVars, tick, events, session, reads>>

Write(op, field, value) == [op |-> op, field |-> field, value |-> value]

\* WriteFor with power_on and power_off writing whatever the state is.
WriteForPowerUnguarded(method, val, d) ==
    CASE method = "increase_temperature" ->
            {Write(SET_TEMPERATURE_OP_CODE, "temperatura",
                   IF d.temperatureSetpoint + val > 400 THEN 400
                   ELSE d.temperatureSetpoint + val)}
      [] method = "decrease_temperature" ->
            {Write(SET_TEMPERATURE_OP_CODE, "temperatura",
                   IF d.temperatureSetpoint - val < 120 THEN 120
                   ELSE d.temperatureSetpoint - val)}
      [] method = "increase_power" ->
            {Write(SET_POWER_OP_CODE, "potencia",
                   IF d.powerSetpoint + 1 > 9 THEN 9 ELSE d.powerSetpoint + 1)}
      [] method = "decrease_power" ->
            {Write(SET_POWER_OP_CODE, "potencia",
                   IF d.powerSetpoint - 1 < 1 THEN 1 ELSE d.powerSetpoint - 1)}
      [] method = "power_on" ->
            {Write(SET_ON_OFF_OP_CODE, "on_off", 1)}
      [] method = "power_off" ->
            {Write(SET_ON_OFF_OP_CODE, "on_off", 0)}
      [] method = "set_power_mode" ->
            IF d.operativeMode.mode # 0 /\ d.operativeMode.mode # -1
            THEN {Write(SET_OPERATIVE_MODE_OP_CODE, "modo_operacion", 0)}
            ELSE {}
      [] method = "set_temperature_mode" ->
            IF d.operativeMode.mode # 1 /\ d.operativeMode.mode # -1
            THEN {Write(SET_OPERATIVE_MODE_OP_CODE, "modo_operacion", 1)}
            ELSE {}
      [] method = "set_emergency_mode" ->
            IF d.operativeMode.mode # 2 /\ d.operativeMode.mode # -1
            THEN {Write(SET_OPERATIVE_MODE_OP_CODE, "modo_operacion", 2)}
            ELSE {}

\* WriteFor with _set_operative_mode writing whatever the mode is.
WriteForModeUnguarded(method, val, d) ==
    CASE method = "increase_temperature" ->
            {Write(SET_TEMPERATURE_OP_CODE, "temperatura",
                   IF d.temperatureSetpoint + val > 400 THEN 400
                   ELSE d.temperatureSetpoint + val)}
      [] method = "decrease_temperature" ->
            {Write(SET_TEMPERATURE_OP_CODE, "temperatura",
                   IF d.temperatureSetpoint - val < 120 THEN 120
                   ELSE d.temperatureSetpoint - val)}
      [] method = "increase_power" ->
            {Write(SET_POWER_OP_CODE, "potencia",
                   IF d.powerSetpoint + 1 > 9 THEN 9 ELSE d.powerSetpoint + 1)}
      [] method = "decrease_power" ->
            {Write(SET_POWER_OP_CODE, "potencia",
                   IF d.powerSetpoint - 1 < 1 THEN 1 ELSE d.powerSetpoint - 1)}
      [] method = "power_on" ->
            IF d.state.state = 0 THEN {Write(SET_ON_OFF_OP_CODE, "on_off", 1)}
            ELSE {}
      [] method = "power_off" ->
            IF d.state.state = 7 THEN {Write(SET_ON_OFF_OP_CODE, "on_off", 0)}
            ELSE {}
      [] method = "set_power_mode" ->
            {Write(SET_OPERATIVE_MODE_OP_CODE, "modo_operacion", 0)}
      [] method = "set_temperature_mode" ->
            {Write(SET_OPERATIVE_MODE_OP_CODE, "modo_operacion", 1)}
      [] method = "set_emergency_mode" ->
            {Write(SET_OPERATIVE_MODE_OP_CODE, "modo_operacion", 2)}

\* The write a NetFlame method sends after its get_data returned d ({}: none).
\* _set_operative_mode and power_on/off read the cache that get_data wrote.
WriteFor(method, val, d) ==
    CASE method = "increase_temperature" ->
            {Write(SET_TEMPERATURE_OP_CODE, "temperatura",
                   IF d.temperatureSetpoint + val > 400 THEN 400
                   ELSE d.temperatureSetpoint + val)}
      [] method = "decrease_temperature" ->
            {Write(SET_TEMPERATURE_OP_CODE, "temperatura",
                   IF d.temperatureSetpoint - val < 120 THEN 120
                   ELSE d.temperatureSetpoint - val)}
      [] method = "increase_power" ->
            {Write(SET_POWER_OP_CODE, "potencia",
                   IF d.powerSetpoint + 1 > 9 THEN 9 ELSE d.powerSetpoint + 1)}
      [] method = "decrease_power" ->
            {Write(SET_POWER_OP_CODE, "potencia",
                   IF d.powerSetpoint - 1 < 1 THEN 1 ELSE d.powerSetpoint - 1)}
      [] method = "power_on" ->
            IF d.state.state = 0 THEN {Write(SET_ON_OFF_OP_CODE, "on_off", 1)}
            ELSE {}
      [] method = "power_off" ->
            IF d.state.state = 7 THEN {Write(SET_ON_OFF_OP_CODE, "on_off", 0)}
            ELSE {}
      [] method = "set_power_mode" ->
            IF d.operativeMode.mode # 0 /\ d.operativeMode.mode # -1
            THEN {Write(SET_OPERATIVE_MODE_OP_CODE, "modo_operacion", 0)}
            ELSE {}
      [] method = "set_temperature_mode" ->
            IF d.operativeMode.mode # 1 /\ d.operativeMode.mode # -1
            THEN {Write(SET_OPERATIVE_MODE_OP_CODE, "modo_operacion", 1)}
            ELSE {}
      [] method = "set_emergency_mode" ->
            IF d.operativeMode.mode # 2 /\ d.operativeMode.mode # -1
            THEN {Write(SET_OPERATIVE_MODE_OP_CODE, "modo_operacion", 2)}
            ELSE {}

\* CommandReadReturns with power_on writing although its get_data raised.
CommandReadReturnsWritesBlind(o) ==
    /\ wpc = "p_cmd_read"
    /\ CacheAfter(o)
    /\ IF o.returns
          /\ WriteFor(call, Head(cmds).val, o.data) # {}
       THEN /\ pending' = WriteFor(call, Head(cmds).val, o.data)
            /\ wpc' = "p_cmd_write"
            /\ UNCHANGED <<cmds, call, log>>
       ELSE IF ~o.returns /\ call = "power_on"
       THEN /\ pending' = {Write(SET_ON_OFF_OP_CODE, "on_off", 1)}
            /\ wpc' = "p_cmd_write"
            /\ UNCHANGED <<cmds, call, log>>
       ELSE NextCommand(IF o.returns THEN "done" ELSE "failed")
    /\ UNCHANGED <<sendVars, cfgVars, enq, drained, cleared, drains, emptyDrains, stop, client, ip, queueVars, timerVars, found,
                   pollVars, tick, events, session, reads>>

\* The get_data of the called method is over: its write is sent, or the
\* command is over.
CommandReadReturns(o) ==
    /\ wpc = "p_cmd_read"
    /\ CacheAfter(o)
    /\ IF o.returns
          /\ WriteFor(call, Head(cmds).val, o.data) # {}
       THEN /\ pending' = WriteFor(call, Head(cmds).val, o.data)
            /\ wpc' = "p_cmd_write"
            /\ UNCHANGED <<cmds, call, log>>
       ELSE NextCommand(IF o.returns THEN "done" ELSE "failed")
    /\ UNCHANGED <<sendVars, cfgVars, enq, drained, cleared, drains, emptyDrains, stop, client, ip, queueVars, timerVars, found,
                   pollVars, tick, events, session, reads>>

\* send_operation_params of a write on nr, decoded once: whether it raises.
WriteOutcome(op, nr) == [op |-> op, reply |-> nr, raises |-> SendRaises(nr, op)]

WriteOutcomes ==
    {WriteOutcome(op, nr) : op \in WriteOps, nr \in Replies(WriteBodies)}

\* The send_operation_params of the write is over (returned, or its exception
\* caught and logged).
CommandWriteReturns(o) ==
    /\ wpc = "p_cmd_write"
    /\ \E w \in pending : o.op = w.op
    /\ NextCommand(IF o.raises THEN "failed" ELSE "done")
    /\ UNCHANGED <<sendVars, cfgVars, enq, drained, cleared, drains, emptyDrains, stop, client, cacheVars, ip, queueVars, timerVars,
                   found, pollVars, tick, events, session, reads>>

\* The loop is over: data = self._client.get_data() is called.
ProcessCommandsDone ==
    /\ wpc = "p_cmd"
    /\ cmds = <<>>
    /\ IF client = "None"
       THEN PollFail("AttributeError")
       ELSE /\ wpc' = "p_data_wait"
            /\ UNCHANGED <<events, session, timerVars, client, ip, pollVars>>
    /\ UNCHANGED <<sendVars, cfgVars, histVars, drains, stop, cacheVars, queueVars, found, cmdVars, tick,
                   reads>>

\* get_data is over: alarms = self._client.get_alarms() is called.
PollDataReturns(o) ==
    /\ wpc = "p_data_wait"
    /\ CacheAfter(o)
    /\ reads' = Append(reads, ReadOf(GET_DATA_OP_CODE, o.returns,
                                     o.returns, o.data))
    /\ IF ~o.returns THEN PollFail(o.error)
       ELSE IF client = "None" THEN PollFail("AttributeError")
       ELSE /\ data' = o.data
            /\ wpc' = "p_alarms_wait"
            /\ UNCHANGED <<events, session, timerVars, client, ip, alarms>>
    /\ UNCHANGED <<sendVars, cfgVars, histVars, drains, stop, queueVars, found, cmdVars, tick>>

\* get_alarms on nr, decoded once.
AlarmsOutcome(nr) ==
    [ reply   |-> nr,
      returns |-> ~SendRaises(nr, GET_ALARMS_OP_CODE),
      error   |-> SendError(nr, GET_ALARMS_OP_CODE),
      alarms  |-> IF SendRaises(nr, GET_ALARMS_OP_CODE) THEN NoAlarms
                  ELSE GetAlarms(ParseResponse(GET_ALARMS_OP_CODE, nr.body)) ]

AlarmsOutcomes == {AlarmsOutcome(nr) : nr \in Replies(AlarmBodies)}

\* get_alarms is over and get_hour is called whatever get_alarms did.
PollAlarmsReturnsGoesOn(o) ==
    /\ wpc = "p_alarms_wait"
    /\ reads' = Append(reads, ReadOf(GET_ALARMS_OP_CODE, o.returns,
                                     o.returns, o.alarms))
    /\ IF client = "None" THEN PollFail("AttributeError")
       ELSE /\ alarms' = o.alarms
            /\ wpc' = "p_hour_wait"
            /\ UNCHANGED <<events, session, timerVars, client, ip, data>>
    /\ UNCHANGED <<sendVars, cfgVars, histVars, drains, stop, cacheVars, queueVars, found, cmdVars, tick>>

\* get_alarms is over: clientTime = self._client.get_hour() is called.
PollAlarmsReturns(o) ==
    /\ wpc = "p_alarms_wait"
    /\ reads' = Append(reads, ReadOf(GET_ALARMS_OP_CODE, o.returns,
                                     o.returns, o.alarms))
    /\ IF ~o.returns
       THEN PollFail(o.error)
       ELSE IF client = "None" THEN PollFail("AttributeError")
       ELSE /\ alarms' = o.alarms
            /\ wpc' = "p_hour_wait"
            /\ UNCHANGED <<events, session, timerVars, client, ip, data>>
    /\ UNCHANGED <<sendVars, cfgVars, histVars, drains, stop, cacheVars, queueVars, found, cmdVars, tick>>

\* The device answered the clock read with a response get_hour can decode.
HourAnswered(nr) ==
    /\ ~SendRaises(nr, GET_HOUR_OP_CODE)
    /\ <<"int_rx">> \in DOMAIN ParseResponse(GET_HOUR_OP_CODE, nr.body).params
    /\ IntParses(ParseResponse(GET_HOUR_OP_CODE, nr.body).params[<<"int_rx">>])

\* get_hour returns normally on nr.
GetHourReturns(nr) ==
    /\ ~SendRaises(nr, GET_HOUR_OP_CODE)
    /\ GetHourRaises(ParseResponse(GET_HOUR_OP_CODE, nr.body)) = "none"

GetHourError(nr) ==
    IF SendRaises(nr, GET_HOUR_OP_CODE) THEN SendError(nr, GET_HOUR_OP_CODE)
    ELSE GetHourRaises(ParseResponse(GET_HOUR_OP_CODE, nr.body))

\* get_hour on nr, decoded once.
HourOutcome(nr) ==
    [ reply    |-> nr,
      answered |-> HourAnswered(nr),
      returns  |-> GetHourReturns(nr),
      error    |-> GetHourError(nr),
      hour     |-> IF GetHourReturns(nr)
                   THEN GetHour(ParseResponse(GET_HOUR_OP_CODE, nr.body))
                   ELSE <<>> ]

HourOutcomes == {HourOutcome(nr) : nr \in Replies(HourBodies)}

\* clientTime.date: the attribute exists when Hora has such a field.
SnapshotRaises == \A i \in DOMAIN HoraFields : HoraFields[i] # "date"

\* The StoveSnapshot of _tick_poll.
StoveSnapshot(addr, d, a, clientTime) ==
    [ ip             |-> addr,
      current_time   |-> clientTime,
      current_temp   |-> d.currentTemperature,
      set_temp       |-> d.temperatureSetpoint,
      power_setpoint |-> d.powerSetpoint,
      status_on      |-> d.statusOn,
      state          |-> d.state,
      mode_text      |-> d.operativeMode.description,
      mode_code      |-> d.operativeMode.mode,
      alarms_text    |-> a.description,
      alarms_code    |-> a.code ]

\* get_hour is over, with the snapshot emitted whatever get_hour did.
PollHourReturnsEmitsAlways(o) ==
    /\ wpc = "p_hour_wait"
    /\ reads' = Append(reads, ReadOf(GET_HOUR_OP_CODE, o.answered,
                                     o.returns, o.hour))
    /\ events' = Append(events,
                        Snapshot(StoveSnapshot(ip, data, alarms, o.hour)))
    /\ UNCHANGED session
    /\ wpc' = "idle"
    /\ data' = NoData
    /\ alarms' = NoAlarms
    /\ UNCHANGED <<timerVars, client, ip>>
    /\ UNCHANGED <<sendVars, cfgVars, histVars, drains, stop, cacheVars, queueVars, found, cmdVars, tick>>

\* get_hour is over: the snapshot is built and emitted, or the except clause.
PollHourReturns(o) ==
    /\ wpc = "p_hour_wait"
    /\ reads' = Append(reads, ReadOf(GET_HOUR_OP_CODE, o.answered,
                                     o.returns, o.hour))
    /\ IF ~o.returns THEN PollFail(o.error)
       ELSE IF SnapshotRaises THEN PollFail("AttributeError")
       ELSE /\ events' = Append(events,
                    Snapshot(StoveSnapshot(ip, data, alarms,
                                           o.hour)))
            /\ UNCHANGED session
            /\ wpc' = "idle"
            /\ data' = NoData
            /\ alarms' = NoAlarms
            /\ UNCHANGED <<timerVars, client, ip>>
    /\ UNCHANGED <<sendVars, cfgVars, histVars, drains, stop, cacheVars, queueVars, found, cmdVars, tick>>

Next ==
    \/ Start
    \/ Stop
    \/ RequestLock
    \/ \E c \in Commands : RequestAppend(c)
    \/ TickDiscovery
    \/ ScanFails
    \/ \E devices \in Scans : ScanReturns(devices)
    \/ Construct
    \/ ValidateCall
    \/ \E o \in DataOutcomes : ValidateReturns(o)
    \/ TickPoll
    \/ ProcessCommandsCheck
    \/ ProcessCommandsLock
    \/ ClearQueue
    \/ DrainQueue
    \/ DrainClear
    \/ CommandDispatch
    \/ \E o \in DataOutcomes : CommandReadReturns(o)
    \/ \E o \in WriteOutcomes : CommandWriteReturns(o)
    \/ ProcessCommandsDone
    \/ \E o \in DataOutcomes : PollDataReturns(o)
    \/ \E o \in AlarmsOutcomes : PollAlarmsReturns(o)
    \/ \E o \in HourOutcomes : PollHourReturns(o)

vars == <<sendVars, workerVars>>

\* The worker with a client of the default retry count (NetFlame passes none),
\* the send loop of each device request taken as one step.
Init ==
    /\ InitWorker
    /\ InitSend
    /\ retries = ClientRetries(DefaultRetries)
    /\ auth_mode = "basic"

Spec == Init /\ [][Next]_vars

\* One client and its retry loop, the worker not started.
InitClient ==
    /\ InitSend
    /\ InitWorker
    /\ username = "stove"
    /\ password = {"secret"}
    /\ auth_mode = "basic"

SpecSend == InitClient /\ [][NextSend]_vars

\* --------------------------------------------------- claims on the transport
\* An attempt that failed the way the retry loop retries: session.post raised
\* a requests exception, or the status is one raise_for_status raises on.
AttemptFailed(h) ==
    \/ h.kind = "exc"
    \/ (h.kind = "resp" /\ h.status # 401 /\ h.status >= 400 /\ h.status < 600)

\* The same, with "a non-2xx non-401 status" taken literally.
AttemptFailedNon2xx(h) ==
    \/ h.kind = "exc"
    \/ (h.kind = "resp" /\ h.status # 401 /\ (h.status < 200 \/ h.status > 299))

\* C1 (as amended): a send makes at most self.retries HTTP attempts; when every
\* attempt fails with a requests exception or a 4xx/5xx status other than 401,
\* exactly self.retries attempts are made, self.retries - 1 delays elapse, one
\* TransportError leaves the call and the parser is never invoked.
C1_BoundedRetry ==
    /\ posts <= retries
    /\ sleeps <= posts
    /\ (spc = "done" /\ \A i \in DOMAIN hist : AttemptFailed(hist[i])) =>
          /\ posts = retries
          /\ sleeps = retries - 1
          /\ outcome = "TransportError"
          /\ raised = 1
          /\ parses = 0

\* C1 witness: three failing attempts on a 3-retry client, two delays, one
\* TransportError (the scenario of the specification).
C1_Witness ==
    /\ spc = "done"
    /\ retries = 3
    /\ posts = 3
    /\ sleeps = 2
    /\ \A i \in DOMAIN hist : hist[i].kind = "exc"
    /\ outcome = "TransportError"
    /\ parses = 0

\* C1 as stated: the same with every non-2xx status other than 401 counted as a
\* failing attempt.
C1_Original ==
    /\ posts <= retries
    /\ (spc = "done" /\ \A i \in DOMAIN hist : AttemptFailedNon2xx(hist[i])) =>
          /\ posts = retries
          /\ sleeps = retries - 1
          /\ outcome = "TransportError"
          /\ raised = 1
          /\ parses = 0

\* C2: an HTTP 401 on any attempt ends the call with TransportError at once:
\* it is the last attempt, no delay follows it (i - 1 delays elapsed before
\* attempt i, none on the first), and exactly one exception leaves the call.
C2_UnauthorizedNotRetried ==
    \A i \in DOMAIN hist :
        (hist[i].kind = "resp" /\ hist[i].status = 401) =>
            /\ i = Len(hist)
            /\ spc = "done"
            /\ outcome = "TransportError"
            /\ posts = i
            /\ sleeps = i - 1
            /\ raised = 1
            /\ parses = 0

\* C2 witness: a 401 met on the first attempt of a client with retries left.
C2_Witness ==
    /\ spc = "done"
    /\ retries > 1
    /\ Len(hist) = 1
    /\ hist[1].status = 401
    /\ sleeps = 0
    /\ outcome = "TransportError"

\* C3: a call whose round trip succeeded and whose body was parsed returns a
\* response with error code None or 0, or raises OperationError when the code
\* is non-zero; no returned response carries a non-zero code.
C3_NonZeroCodeRaises ==
    /\ outcome = "return" => parses = 1 /\ resp.error_code \in {{}, {0}}
    /\ outcome = "OperationError" => parses = 1 /\ resp.error_code \notin {{}, {0}}
    /\ (spc = "done" /\ parses = 1 /\ hist[Len(hist)].body # "raises") =>
          \/ (outcome = "return" /\ resp.error_code \in {{}, {0}} /\ raised = 0)
          \/ (outcome = "OperationError" /\ resp.error_code \notin {{}, {0}}
                /\ raised = 1)

\* C3 witness: the body "error=3" ended a write operation in OperationError.
C3_Witness ==
    /\ spc = "done"
    /\ operation = SET_ON_OFF_OP_CODE
    /\ resp.raw = << <<"error", "=", "3">> >>
    /\ resp.error_code = {3}
    /\ outcome = "OperationError"

\* C4: once an attempt has received a body that is unparsable or carries a
\* non-zero code, the call is over: that attempt is the last, no delay follows
\* it, and ProtocolError resp. OperationError leaves the call.
C4_ProtocolOperationNotRetried ==
    \A i \in DOMAIN hist :
        hist[i].body \in {"raises", "nonzero"} =>
            /\ i = Len(hist)
            /\ spc = "done"
            /\ posts = i
            /\ sleeps = i - 1
            /\ raised = 1
            /\ outcome = IF hist[i].body = "raises" THEN "ProtocolError"
                         ELSE "OperationError"

\* C4 witness: an unparsable body on the first of three attempts.
C4_Witness ==
    /\ spc = "done"
    /\ retries = 3
    /\ Len(hist) = 1
    /\ hist[1].body = "raises"
    /\ outcome = "ProtocolError"
    /\ sleeps = 0

\* ------------------------------------------------------ claims on the worker
\* The states of the connection state machine, read off the worker: Validating
\* is a discovery tick between the match of the scan and the end of the
\* validating get_data; Searching has no client and no poll timer.
Validating == wpc \in {"d_construct", "d_validate", "d_validate_wait"}
Searching == client = "None" /\ ~poll_timer
SessionConnected == client = "NetFlame" /\ wpc \notin {"d_validate", "d_validate_wait"}

\* The scan result holds the reference hardware address (in any case).
ContainsReference(devices) ==
    \E i \in DOMAIN devices :
        \E m \in devices[i].mac : Upper(m) = Upper(REFERENCE_MAC)

\* The cached last-known state and mode the worker can see: those of the
\* NetFlame object self._client refers to, unknown (-1) without one.
LastKnownState == IF client = "None" THEN -1 ELSE stoveInternalState
LastKnownMode == IF client = "None" THEN -1 ELSE stoveInternalOperativeMode

IsSnapshot(e) == e.name = "snapshot"
IsDisconnected(e) == e.name = "disconnected"
IsConnected(e) == e.name = "connected"

\* C5: a discovery tick whose scan holds the reference hardware address goes
\* Searching -> Validating in that tick; the poll timer is started (Polling)
\* only by the step in which the validating telemetry read of that tick
\* returned; a validation that fails ends the tick in Searching, one
\* disconnected event emitted, the discovery timer still running unless stop
\* was called, and the last-known state and mode unknown (-1).
C5_DiscoveryValidation ==
    [][ /\ \A devices \in Scans :
              (ScanReturns(devices) /\ ContainsReference(devices)) =>
                  (tick' = "discovery" /\ Validating')
        /\ (~poll_timer /\ poll_timer') =>
              /\ tick = "discovery" /\ wpc = "d_validate_wait"
              /\ Len(reads') = 1
              /\ reads'[1].op = GET_DATA_OP_CODE
              /\ reads'[1].returned
              /\ Len(SelectSeq(events', IsConnected)) = 1
        /\ (Validating /\ wpc' = "idle"
              /\ ~(Len(reads') = 1 /\ reads'[1].returned)) =>
              /\ Searching'
              /\ Len(SelectSeq(events', IsDisconnected)) = 1
              /\ Len(SelectSeq(events', IsConnected)) = 0
              /\ (~stop' => discovery_timer')
              /\ LastKnownState' = -1
              /\ LastKnownMode' = -1
      ]_vars

\* C5 witness: a discovery tick found the device, the device answered the
\* validating read with an error code, and the tick ended in Searching.
C5_Witness ==
    /\ tick = "discovery"
    /\ wpc = "idle"
    /\ ~stop
    /\ Len(reads) = 1
    /\ ~reads[1].returned
    /\ events = <<Disconnected("StoveOperationError")>>
    /\ Searching
    /\ discovery_timer

\* C6 (as stated): the two timers are never both active, the discovery timer
\* is active only while no session is connected, the poll timer only while one
\* is, and a step that starts one timer leaves the other stopped.
C6_TimersExclusive ==
    [][ /\ ~(discovery_timer' /\ poll_timer')
        /\ discovery_timer' => ~SessionConnected'
        /\ poll_timer' => SessionConnected'
        /\ (~discovery_timer /\ discovery_timer') => ~poll_timer'
        /\ (~poll_timer /\ poll_timer') => ~discovery_timer'
      ]_vars

\* C7: the step of a poll tick in which the telemetry, alarm or clock read
\* fails ends the tick (the handler returns), with exactly one event emitted
\* in the tick, a disconnected one, the client discarded, the poll timer
\* stopped and the discovery timer running.
C7_PollFailureDisconnects ==
    [][ (/\ wpc \in {"p_data_wait", "p_alarms_wait", "p_hour_wait"}
         /\ Len(reads') = Len(reads) + 1
         /\ ~reads'[Len(reads')].returned) =>
            /\ wpc' = "idle"
            /\ Len(events') = 1
            /\ IsDisconnected(events'[1])
            /\ client' = "None"
            /\ ip' = ""
            /\ ~poll_timer'
            /\ discovery_timer'
      ]_vars

\* C7 witness: a poll tick whose telemetry read returned and whose alarm read
\* ended in StoveTransportError; the worker is back in Searching.
C7_Witness ==
    /\ tick = "poll"
    /\ wpc = "idle"
    /\ ~stop
    /\ Len(reads) = 2
    /\ reads[1].returned
    /\ reads[2].op = GET_ALARMS_OP_CODE
    /\ ~reads[2].returned
    /\ events = <<Disconnected("StoveTransportError")>>
    /\ Searching
    /\ discovery_timer

\* C8 (as stated): a poll tick of a running worker in which the device
\* answered the telemetry, the alarm and the clock read with well-formed
\* success responses emits exactly one snapshot and no disconnected event, and
\* leaves the client installed and the poll timer active.
C8_PollTickEmitsSnapshot ==
    [][ (/\ wpc = "p_hour_wait" /\ wpc' = "idle"
         /\ ~stop'
         /\ Len(reads') = 3
         /\ \A i \in 1..3 : reads'[i].answered) =>
            /\ Len(SelectSeq(events', IsSnapshot)) = 1
            /\ Len(SelectSeq(events', IsDisconnected)) = 0
            /\ client' = "NetFlame"
            /\ poll_timer'
      ]_vars

\* C9: a snapshot among the events of a handler means the handler is a poll
\* tick whose telemetry, alarm and clock read all returned, and the fields of
\* the snapshot are the values those three reads returned.
C9_NoPartialSnapshot ==
    \A i \in DOMAIN events :
        IsSnapshot(events[i]) =>
            /\ tick = "poll"
            /\ Len(reads) = 3
            /\ reads[1].op = GET_DATA_OP_CODE /\ reads[1].returned
            /\ reads[2].op = GET_ALARMS_OP_CODE /\ reads[2].returned
            /\ reads[3].op = GET_HOUR_OP_CODE /\ reads[3].returned
            /\ events[i].arg.current_temp = reads[1].value.currentTemperature
            /\ events[i].arg.set_temp = reads[1].value.temperatureSetpoint
            /\ events[i].arg.power_setpoint = reads[1].value.powerSetpoint
            /\ events[i].arg.status_on = reads[1].value.statusOn
            /\ events[i].arg.state = reads[1].value.state
            /\ events[i].arg.mode_code = reads[1].value.operativeMode.mode
            /\ events[i].arg.mode_text = reads[1].value.operativeMode.description
            /\ events[i].arg.alarms_code = reads[2].value.code
            /\ events[i].arg.alarms_text = reads[2].value.description
            /\ events[i].arg.current_time = reads[3].value

\* C9 witness: a poll tick whose telemetry and alarm reads returned and whose
\* clock read got no answer ended without a snapshot.
C9_Witness ==
    /\ tick = "poll"
    /\ wpc = "idle"
    /\ Len(reads) = 3
    /\ reads[1].returned
    /\ reads[2].returned
    /\ ~reads[3].answered
    /\ Len(SelectSeq(events, IsSnapshot)) = 0

\* C10 (as stated): a command appended while the worker had no client is not in
\* the queue when a session drains it, and no write of such a command is sent
\* to the device.
C10_NoStaleCommandApplied ==
    /\ wpc = "p_drain" => \A i \in DOMAIN cmd_queue : ~cmd_queue[i].stale
    /\ wpc = "p_cmd_write" => ~Head(cmds).stale


\* ---------------------------------------------------------------------------
\* The command queue
\* ---------------------------------------------------------------------------

\* How many times command n has been taken out of the queue or is still in
\* it.  Between the copy and the clear of a drain the copied items are still
\* in the queue: there the queue is not counted.
Occurrences(n) ==
    Cardinality({i \in DOMAIN drained : drained[i] = n})
        + (IF n \in cleared THEN 1 ELSE 0)
        + (IF wpc = "p_drain_clear" THEN 0
           ELSE Cardinality({i \in DOMAIN cmd_queue : cmd_queue[i].id = n}))

\* The step that ends the critical section of a drain.
DrainRelease == wpc = "p_drain_clear" /\ wpc' = "p_cmd"

\* C11: under every interleaving of enqueue calls with drains, each enqueued
\* command is in the queue, or was taken by exactly one drain, or was removed
\* by a clear -- never two of these, never none; no enqueue lands between the
\* copy and the clear of a drain; and the queue is empty when the drain's
\* critical section ends.
C11_EachCommandRemovedOnce ==
    [][/\ \A n \in 1..enq' : Occurrences(n)' = 1
       /\ (wpc' = "p_drain_clear" => cmd_queue' = cmds')
       /\ (DrainRelease => cmd_queue' = <<>>)]_vars

\* One command went to a drain, one to a clear, and one was enqueued after.
C11_Witness == drained # <<>> /\ cleared # {} /\ cmd_queue # <<>>

\* The worker is in the loop over the drained commands.
InCommandLoop == wpc \in {"p_cmd", "p_cmd_read", "p_cmd_write"}

\* The poll tick is past the critical section of _process_commands.
PastDrain ==
    /\ tick = "poll"
    /\ \/ InCommandLoop
       \/ wpc \in {"p_data_wait", "p_alarms_wait", "p_hour_wait"}
       \/ reads # <<>>
       \/ events # <<>>

\* The poll tick has not reached the critical section of _process_commands.
BeforeDrain == wpc \in {"p_commands", "p_drain_lock", "p_clear_lock", "p_drain", "p_clear"}

\* The ids of the last k commands the loop went through.
LastProcessed(k) == [i \in 1..k |-> log[Len(log) - k + i].id]

\* C12: the commands one drain returned are processed in the order they were
\* enqueued, and a poll tick that started with a session runs the critical
\* section of _process_commands (copy-and-clear, or the clear alone when no
\* session is left) exactly once, before any of its reads.
C12_FifoDrainOncePerTick ==
    /\ Len(drains) <= 1
    /\ BeforeDrain => drains = <<>> /\ reads = <<>>
    /\ PastDrain => Len(drains) = 1
    /\ InCommandLoop =>
          LET batch == drains[1]
              k     == Len(drains[1]) - Len(cmds)
          IN  /\ \A i, j \in DOMAIN batch : i < j => batch[i] < batch[j]
              /\ k >= 0 /\ k <= Len(log)
              /\ LastProcessed(k) = SubSeq(batch, 1, k)
              /\ IdSeq(cmds) = SubSeq(batch, k + 1, Len(batch))

\* A poll tick drained two commands, went through both and reached its reads.
C12_Witness ==
    /\ tick = "poll"
    /\ reads # <<>>
    /\ Len(drains) = 1
    /\ Len(drains[1]) >= 2
    /\ Len(log) >= 2

\* The ids in the log with result "failed".
FailedIds == {log[i].id : i \in {j \in DOMAIN log : log[j].result = "failed"}}

\* C13: a command whose processing failed is gone for good: it is not in the
\* queue again, it is in the log once, and it is not among the commands still
\* to be processed; outside the drain's critical section the queue holds only
\* commands enqueued after every drained one.
C13_FailedCommandDiscarded ==
    /\ \A n \in FailedIds :
          /\ wpc # "p_drain_clear" => n \notin Ids(cmd_queue)
          /\ n \notin Ids(cmds)
          /\ Cardinality({i \in DOMAIN log : log[i].id = n}) = 1
    /\ wpc # "p_drain_clear" =>
          \A i \in DOMAIN cmd_queue, j \in DOMAIN drained :
              cmd_queue[i].id > drained[j]

\* A command failed in an earlier tick, and a later tick is going through a
\* batch of its own.
C13_Witness ==
    /\ InCommandLoop
    /\ cmds # <<>>
    /\ FailedIds # {}
    /\ Len(drains) = 1
    /\ \A n \in FailedIds : \A i \in DOMAIN drains[1] : drains[1][i] # n

\* The step in which the processing of a command fails.
CommandFails ==
    /\ Len(log') = Len(log) + 1
    /\ log'[Len(log')].result = "failed"

\* The log ends with the whole batch of the tick, in order.
BatchLogged ==
    /\ Len(drains) = 1
    /\ Len(log) >= Len(drains[1])
    /\ LastProcessed(Len(drains[1])) = drains[1]

\* C14: the failure of one command does not abort the drain.  The failing
\* step leaves the worker in the loop with the rest of the batch, emits
\* nothing, and keeps the client, the address and both timers as they were;
\* and when the tick is at one of its three reads, every command of the batch
\* has been gone through.
C14_CommandFailureDoesNotAbort ==
    [][/\ CommandFails =>
            /\ wpc' = "p_cmd"
            /\ cmds' = Tail(cmds)
            /\ events' = events
            /\ <<client, ip, poll_timer, discovery_timer>>'
                  = <<client, ip, poll_timer, discovery_timer>>
       /\ (wpc' \in {"p_data_wait", "p_alarms_wait", "p_hour_wait"} =>
            /\ cmds' = <<>>
            /\ BatchLogged')]_vars

\* The tick is at its first read after a batch whose first command failed
\* and whose second did not.
C14_Witness ==
    /\ wpc = "p_data_wait"
    /\ Len(drains) = 1
    /\ Len(drains[1]) >= 2
    /\ Len(log) >= 2
    /\ log[Len(log) - 1].result = "failed"
    /\ log[Len(log)].result = "done"
    /\ log[Len(log) - 1].id = drains[1][Len(drains[1]) - 1]
    /\ SessionConnected

\* ---------------------------------------------------------------------------
\* The writes of the commands
\* ---------------------------------------------------------------------------

\* C15: every temperature setpoint a command writes is within 12.0..40.0
\* degrees (120..400 tenths) and every power setpoint within 1..9.
C15_SetpointWritesInRange ==
    \A w \in pending :
        /\ w.op = SET_TEMPERATURE_OP_CODE => w.value >= 120 /\ w.value <= 400
        /\ w.op = SET_POWER_OP_CODE => w.value >= 1 /\ w.value <= 9

\* C16: an on/off write (operation 1013) with on_off = 1 is sent only by
\* power_on and only when the internal state get_data last cached is 0; one
\* with on_off = 0 only by power_off and only when that state is 7.  In every
\* other state the power command sends no write.
C16_PowerWriteGuarded ==
    \A w \in pending :
        w.op = SET_ON_OFF_OP_CODE =>
            /\ wpc = "p_cmd_write"
            /\ Head(cmds).cmd = "power"
            /\ w.value = 1 => /\ call = "power_on"
                              /\ Head(cmds).val
                              /\ stoveInternalState = 0
            /\ w.value = 0 => /\ call = "power_off"
                              /\ ~Head(cmds).val
                              /\ stoveInternalState = 7
            /\ w.value \in {0, 1}

\* power_on is sending its write.
C16_Witness ==
    /\ wpc = "p_cmd_write"
    /\ call = "power_on"
    /\ Write(SET_ON_OFF_OP_CODE, "on_off", 1) \in pending

\* C17: an operative-mode write (operation 1081) is sent only when the
\* requested mode differs from the mode get_data last cached and that cached
\* mode is not -1.
C17_ModeWriteGuarded ==
    \A w \in pending :
        w.op = SET_OPERATIVE_MODE_OP_CODE =>
            /\ wpc = "p_cmd_write"
            /\ call \in {"set_power_mode", "set_temperature_mode"}
            /\ w.value = (IF call = "set_power_mode" THEN 0 ELSE 1)
            /\ stoveInternalOperativeMode # w.value
            /\ stoveInternalOperativeMode # -1

\* set_power_mode is sending its write.
C17_Witness ==
    /\ wpc = "p_cmd_write"
    /\ call = "set_power_mode"
    /\ Write(SET_OPERATIVE_MODE_OP_CODE, "modo_operacion", 0) \in pending

\* ---------------------------------------------------------------------------
\* Shutdown, scan failures, and the cache across sessions
\* ---------------------------------------------------------------------------

\* C18: once stop is set, both timers are halted and no client is installed,
\* in every later state -- also when stop() ran while a tick was in progress.
C18_StopIsFinal ==
    stop => /\ ~discovery_timer
            /\ ~poll_timer
            /\ client = "None"

\* C19: a discovery tick whose scan fails behaves as a tick with no match: the
\* worker stays in Searching with no client, the discovery timer is left as
\* it was, and neither connected nor disconnected is emitted.
C19_ScanFailureIsNoMatch ==
    [][ScanFails => /\ Searching'
                    /\ discovery_timer' = discovery_timer
                    /\ events' = events]_vars

\* C20: in Searching the cached last-known state and mode the worker can see
\* are unknown (-1), and a new session starts with both unknown: until the
\* validating read of the new client returns, nothing an earlier session
\* cached is there for a write guard to read.
C20_CacheUnknownInSearching ==
    /\ Searching => LastKnownState = -1 /\ LastKnownMode = -1
    /\ wpc \in {"d_validate", "d_validate_wait"} =>
          /\ stoveInternalState = -1
          /\ stoveInternalOperativeMode = -1

\* A new client is installed after an earlier session went through a command
\* whose get_data returned.
C20_Witness ==
    /\ wpc = "d_validate"
    /\ client = "NetFlame"
    /\ \E i \in DOMAIN log : log[i].result = "done"

\* ---------------------------------------------------------------------------
\* How the commands are interpreted
\* ---------------------------------------------------------------------------

\* The loop body starts on an increase or decrease command, and the worker
\* takes its step.
DispatchIncDec ==
    /\ wpc = "p_cmd"
    /\ cmds # <<>>
    /\ Head(cmds).cmd \in {"inc", "dec"}
    /\ (wpc' # wpc \/ log' # log)

\* The method an increase / decrease command calls on the power side and on
\* the temperature side.
PowerMethod(c) == IF c.cmd = "inc" THEN "increase_power" ELSE "decrease_power"
TemperatureMethod(c) ==
    IF c.cmd = "inc" THEN "increase_temperature" ELSE "decrease_temperature"

\* The command at the head of the batch is over in this step with `result`
\* and without a write.
DroppedAs(result) ==
    /\ wpc' = "p_cmd"
    /\ cmds' = Tail(cmds)
    /\ pending = {} /\ pending' = {}
    /\ log' = Append(log, [id |-> Head(cmds).id, result |-> result])

\* The write operation each setpoint method sends.
SetpointOp(method) ==
    IF method \in {"increase_power", "decrease_power"}
    THEN SET_POWER_OP_CODE ELSE SET_TEMPERATURE_OP_CODE

SetpointMethods ==
    {"increase_power", "decrease_power", "increase_temperature",
     "decrease_temperature"}

\* The get_data of a setpoint method ends, in a step of the worker.
SetpointRefreshEnds ==
    /\ wpc = "p_cmd_read"
    /\ call \in SetpointMethods
    /\ wpc' # wpc

\* C21 as stated: an increase / decrease command calls the power method when
\* the mode is power and the temperature method in every other case, and none
\* is dropped.
C21_Original ==
    [][DispatchIncDec =>
          /\ wpc' = "p_cmd_read"
          /\ call' = (IF LastKnownMode = 0 THEN PowerMethod(Head(cmds))
                      ELSE TemperatureMethod(Head(cmds)))]_vars

\* C21 (amended): an increase / decrease command calls the power method only
\* when the last known mode is power (0) and the temperature method only when
\* it is neither power nor unknown (-1); with the mode unknown the command is
\* dropped without a device request; and once the refresh of the called
\* method has returned, the write of that method's setpoint is attempted.
C21_IncDecFollowsLastKnownMode ==
    [][/\ DispatchIncDec =>
            IF LastKnownMode = -1
            THEN DroppedAs("skipped") \/ DroppedAs("failed")
            ELSE /\ wpc' = "p_cmd_read"
                 /\ call' = (IF LastKnownMode = 0 THEN PowerMethod(Head(cmds))
                             ELSE TemperatureMethod(Head(cmds)))
                 /\ UNCHANGED <<cmds, log>>
       /\ SetpointRefreshEnds =>
            \/ DroppedAs("failed")
            \/ /\ wpc' = "p_cmd_write"
               /\ UNCHANGED <<cmds, log, call>>
               /\ \E w \in pending' : w.op = SetpointOp(call)]_vars

\* A temperature write and, in another tick, a dropped command are both
\* behind: the write of a setpoint method is being sent after an earlier
\* command was skipped.
C21_Witness ==
    /\ wpc = "p_cmd_write"
    /\ call \in SetpointMethods
    /\ \E i \in DOMAIN log : log[i].result = "skipped"

\* The refresh of a mode method called for a toggle ends without an exception,
\* in a step of the worker.
ToggleRefreshReturns ==
    /\ wpc = "p_cmd_read"
    /\ call \in {"set_power_mode", "set_temperature_mode"}
    /\ wpc' # wpc
    /\ ~DroppedAs("failed")

\* C22: a mode-toggle command whose device requests succeed flips the device
\* between power (0) and temperature (1) relative to the mode the device
\* reports when the command is processed: the refresh having reported mode m,
\* the write of mode 1 - m is sent.
C22_ToggleFlipsReportedMode ==
    [][ToggleRefreshReturns /\ stoveInternalOperativeMode' \in {0, 1} =>
          /\ wpc' = "p_cmd_write"
          /\ pending' = {Write(SET_OPERATIVE_MODE_OP_CODE, "modo_operacion",
                               1 - stoveInternalOperativeMode')}]_vars

\* C23: every operative-mode write (operation 1081) a drain sends carries
\* mode 0 or mode 1, never 2 (emergency): the loop never calls
\* set_emergency_mode.
C23_NoEmergencyModeWrite ==
    /\ call # "set_emergency_mode"
    /\ \A w \in pending :
          w.op = SET_OPERATIVE_MODE_OP_CODE => w.value \in {0, 1}

\* set_temperature_mode is sending its write.
C23_Witness ==
    /\ wpc = "p_cmd_write"
    /\ call = "set_temperature_mode"
    /\ Write(SET_OPERATIVE_MODE_OP_CODE, "modo_operacion", 1) \in pending

\* ---------------------------------------------------------------------------
\* Threads, the lock and the requests in flight
\* ---------------------------------------------------------------------------

\* The positions of the worker inside a `with self._cmd_lock:` block.
InCriticalSection == wpc \in {"p_drain", "p_drain_clear", "p_clear"}

\* C24: the worker holds the queue lock only inside the copy-and-clear (or
\* the clear) of _process_commands, and never while a scan or a device request
\* of its own is in flight; the producer holds it only for its append.
C24_LockNotHeldAcrossRequests ==
    /\ cmd_lock = "worker" <=> InCriticalSection
    /\ cmd_lock = "worker" => ~InFlight /\ wpc # "d_scan"
    /\ cmd_lock \in {"free", "ui", "worker"}

\* The producer has taken the lock for its append while a device request of
\* the worker is in flight.
C24_Witness == cmd_lock = "ui" /\ InFlight

\* A handler of the worker thread is running.
HandlerRunning == wpc \notin {"new", "idle"}

\* A step of another thread: stop() from the main thread, or an enqueue.
OtherThreadStep ==
    \/ stop' # stop
    \/ (cmd_lock # "ui" /\ cmd_lock' = "ui")
    \/ (cmd_lock = "ui" /\ cmd_lock' # "ui")

\* C25: at most one device request is in flight.  While a handler runs no
\* other handler starts (the tick and its record of critical sections stay
\* those of the running handler, discovery positions belong to a discovery
\* tick and poll positions to a poll tick), a command method is being called
\* only inside the loop of a poll tick, the three reads of a poll tick follow
\* one another, and a step of stop() or of an enqueue moves no request: the
\* worker's position, the method called and the reads are unchanged by it.
C25_OneRequestInFlight ==
    [][/\ HandlerRunning => tick' = tick /\ (drains' = <<>> => drains = <<>>)
       /\ (wpc' \in {"d_scan", "d_construct", "d_validate", "d_validate_wait"}
              => tick' = "discovery")
       /\ (wpc' \in {"p_commands", "p_clear_lock", "p_drain_lock", "p_clear",
                     "p_drain", "p_drain_clear", "p_cmd", "p_cmd_read",
                     "p_cmd_write", "p_data_wait", "p_alarms_wait",
                     "p_hour_wait"} => tick' = "poll")
       /\ (call' # "none" <=> wpc' \in {"p_cmd_read", "p_cmd_write"})
       /\ (pending' # {} <=> wpc' = "p_cmd_write")
       /\ (wpc' = "p_data_wait" => reads' = <<>>)
       /\ (wpc' = "p_alarms_wait" => Len(reads') = 1)
       /\ (wpc' = "p_hour_wait" => Len(reads') = 2)
       /\ (OtherThreadStep => UNCHANGED <<wpc, call, pending, reads, tick>>)]_vars

\* stop() ran while the second read of a poll tick is in flight, and a command
\* was enqueued after the drain of that tick.
C25_Witness == wpc = "p_alarms_wait" /\ stop /\ cmd_queue # <<>>

\* ---------------------------------------------------------------------------
\* Recovery
\* ---------------------------------------------------------------------------

\* The steps of the worker thread: timer timeouts and the handlers' progress.
\* The event loop delivers the timeout of an active timer and every blocking
\* call of a handler returns; the lock is taken when it is free.
Worker ==
    \/ Start
    \/ TickDiscovery
    \/ ScanFails
    \/ \E devices \in Scans : ScanReturns(devices)
    \/ Construct
    \/ ValidateCall
    \/ \E o \in DataOutcomes : ValidateReturns(o)
    \/ TickPoll
    \/ ProcessCommandsCheck
    \/ ProcessCommandsLock
    \/ ClearQueue
    \/ DrainQueue
    \/ DrainClear
    \/ CommandDispatch
    \/ \E o \in DataOutcomes : CommandReadReturns(o)
    \/ \E o \in WriteOutcomes : CommandWriteReturns(o)
    \/ ProcessCommandsDone
    \/ \E o \in DataOutcomes : PollDataReturns(o)
    \/ \E o \in AlarmsOutcomes : PollAlarmsReturns(o)
    \/ \E o \in HourOutcomes : PollHourReturns(o)

SpecLive == Init /\ [][Next]_vars /\ WF_vars(Worker)

\* The last event of the handler is `disconnected` / `connected`.
LastDisconnected == events # <<>> /\ IsDisconnected(events[Len(events)])
LastConnected == events # <<>> /\ IsConnected(events[Len(events)])

\* A step in which the scan fails or finds no match, or the validating read
\* fails.
DiscoveryObstructed ==
    \/ wpc = "d_scan" /\ wpc' = "idle"
    \/ wpc = "d_validate_wait" /\ wpc' = "idle" /\ ~poll_timer'

\* C26: while the worker is not stopped the discovery timer is active after
\* every disconnect; and with a configuration a client can be built from, if
\* from some point on every scan holds the reference address and every
\* validating read succeeds, every disconnect is followed by a connected
\* event with the poll timer started and the client installed.
C26_RecoversAfterDisconnect ==
    /\ [](~stop /\ LastDisconnected /\ wpc = "idle" => discovery_timer)
    /\ ([]~stop /\ []~ConstructRaises(username, password)
           /\ <>[][~DiscoveryObstructed]_vars)
         => [](LastDisconnected =>
                 <>(LastConnected /\ poll_timer /\ client = "NetFlame"))

\* A session was lost in a poll tick: disconnected is the last event and the
\* discovery timer is running again.
C26_Witness ==
    /\ tick = "poll"
    /\ LastDisconnected
    /\ wpc = "idle"
    /\ ~stop
    /\ discovery_timer

\* ---------------------------------------------------------------------------
\* The parser
\* ---------------------------------------------------------------------------

\* The least element of a non-empty set of numbers.
Least(S) == CHOOSE n \in S : \A m \in S : n <= m

\* The error code the priority rule gives: the value of the first key, in the
\* order of ErrorKeys, that is present with a value that is an integer.
NumericKeys(params) ==
    {i \in DOMAIN ErrorKeys :
        ErrorKeys[i] \in DOMAIN params /\ IntParses(params[ErrorKeys[i]])}

CodeByKey(params) ==
    IF NumericKeys(params) = {} THEN {}
    ELSE {IntVal(params[ErrorKeys[Least(NumericKeys(params))]])}

\* A plain, optionally negative, integer: decimal digits after an optional
\* minus sign.
PlainInteger(ln) ==
    LET d == IF ln # <<>> /\ Head(ln) = "-" THEN Tail(ln) ELSE ln
    IN  d # <<>> /\ \A i \in DOMAIN d : d[i] \in AsciiDigits

PlainIntegerLines(lines) == {i \in DOMAIN lines : PlainInteger(lines[i])}

\* A line of digit characters, decimal or not, after an optional minus sign.
DigitLine(ln) ==
    LET d == IF ln # <<>> /\ Head(ln) = "-" THEN Tail(ln) ELSE ln
    IN  d # <<>> /\ \A i \in DOMAIN d : d[i] \in AsciiDigits \cup UnicodeDigits

DigitLines(lines) == {i \in DOMAIN lines : DigitLine(lines[i])}

\* The error code as C27 states it: by key, else the first plain integer line,
\* else absent.
StatedCode(raw) ==
    LET lines == ResponseLines(raw)
        byKey == CodeByKey(ResponseParams(ResponseLines(raw)))
    IN  IF byKey # {} THEN byKey
        ELSE IF PlainIntegerLines(lines) = {} THEN {}
             ELSE {IntVal(lines[Least(PlainIntegerLines(lines))])}

\* The same with the fallback stopping at the first line of digit characters.
StatedCodeDigitLine(raw) ==
    LET lines == ResponseLines(raw)
        byKey == CodeByKey(ResponseParams(ResponseLines(raw)))
    IN  IF byKey # {} THEN byKey
        ELSE IF DigitLines(lines) = {} THEN {}
             ELSE {IntVal(lines[Least(DigitLines(lines))])}

\* The call in progress has had its body parsed into `resp`.
Parsed == parses = 1 /\ resp.operation_id = operation /\ operation # 0

\* C27 as stated: whenever the parser is invoked it returns a response, whose
\* error code is the one the priority rule and the plain-integer fallback
\* give, absent otherwise.
C27_Original ==
    parses = 1 => Parsed /\ resp.error_code = StatedCode(resp.raw)

\* C27 (amended): the parser either fails with a ValueError (the call ends in
\* ProtocolError, with no response) or returns the code of the first numeric
\* key in priority order, else the value of the first line of digit
\* characters (optionally after a minus sign), else no code.
C27_ErrorCodeByPriority ==
    parses = 1 =>
        IF hist[Len(hist)].body = "raises"
        THEN resp = NoResponse /\ outcome = "ProtocolError"
        ELSE /\ Parsed
             /\ resp.error_code = StatedCodeDigitLine(resp.raw)
             /\ resp.error_code = StatedCode(resp.raw)

\* A response whose `error` value is not numeric and whose `code` value is.
C27_Witness ==
    /\ Parsed
    /\ resp.raw = << <<"error", "=", "x">>, <<"code", "=", "7">> >>
    /\ resp.error_code = {7}

\* C28: for every parsed response status_ok is true exactly when the error
\* code is absent or 0, and when neither a key nor a line yields a code the
\* code is absent (None, the empty set here), never 0.
C28_StatusOkIffNoneOrZero ==
    Parsed =>
        /\ resp.status_ok <=> resp.error_code \in {{}, {0}}
        /\ (NumericKeys(resp.params) = {} /\ DigitLines(resp.lines) = {}) =>
              /\ resp.error_code = {}
              /\ resp.error_code # {0}
              /\ resp.status_ok
        /\ resp.error_code = {0} =>
              NumericKeys(resp.params) # {} \/ DigitLines(resp.lines) # {}

\* A parsed response with fields and no error code.
C28_Witness ==
    /\ Parsed
    /\ resp.raw = << <<"estado", "=", "7">>, <<"on_off", "=", "3">> >>
    /\ resp.error_code = {}
    /\ resp.status_ok

\* ------------------------------------------------------------------- C29
\* The request fields of send_operation_params, sent and read back: the
\* device answers 200 with one "key=value" line per field of the payload.
RoundTripKeys ==
    { <<"on_off">>, <<"temperatura">>, <<" ", "k">>, <<"a", "=", "b">>, <<>> }

RoundTripValues ==
    { PyInt(1), PyInt(215), PyStr(<<"2", "1", ".", "5">>), PyStr(<<"x", " ">>),
      PyStr(<<"a", "=", "b">>), PyStr(<<>>) }

RoundTripExtras ==
    UNION { [K -> RoundTripValues] :
                K \in {S \in SUBSET RoundTripKeys : Cardinality(S) <= 2} }

\* One line "key=value" per field of a str -> str mapping.
RECURSIVE EchoBody(_)
EchoBody(fields) ==
    IF DOMAIN fields = {} THEN <<>>
    ELSE LET k == CHOOSE x \in DOMAIN fields : TRUE
         IN  <<k \o <<"=">> \o fields[k]>>
                 \o EchoBody([x \in DOMAIN fields \ {k} |-> fields[x]])

PostEcho == Post([kind |-> "resp", status |-> 200, body |-> EchoBody(payload)])

NextRoundTrip ==
    \/ \E op \in SendOps, ex \in RoundTripExtras : SendBegin(op, ex)
    \/ PostEcho
    \/ SendEnd

SpecRoundTrip == InitClient /\ [][NextRoundTrip]_vars

\* The call in progress has parsed the echo of its own payload.
RoundTripped ==
    /\ spc = "done"
    /\ Parsed
    /\ resp.raw = EchoBody(payload)

\* A key the parser keeps as it is: non-empty, without "=" and without
\* surrounding whitespace; a value without surrounding whitespace.
WellFormedFields(fields) ==
    \A k \in DOMAIN fields :
        /\ k # <<>>
        /\ ~HasEq(k)
        /\ Strip(k) = k
        /\ Strip(fields[k]) = fields[k]

EmptyDrainStep ==
    \/ wpc = "p_drain" /\ cmd_queue = <<>> /\ wpc' = "p_drain_clear"
    \/ wpc = "p_drain_clear" /\ cmds = <<>> /\ wpc' = "p_cmd"
    \/ wpc = "p_clear" /\ cmd_queue = <<>> /\ wpc' = "idle"

\* C30: draining an empty command queue is idempotent: every drain of an
\* empty queue, the first and any that follows it, processes no command,
\* sends no device request, emits no event and leaves the queue empty.  (In
\* the branch without a client the one signal of the step is the
\* disconnected of _tick_poll, whose get_data call finds no client.)
C30_EmptyDrainIdempotent ==
    [][EmptyDrainStep =>
          /\ cmds' = <<>>
          /\ cmd_queue' = <<>>
          /\ log' = log
          /\ drained' = drained
          /\ cleared' = cleared
          /\ call' = call
          /\ pending' = pending
          /\ pending' = {}
          /\ reads' = reads
          /\ ~InFlight'
          /\ emptyDrains' \in {1, 2}
          /\ \/ events' = events
             \/ /\ wpc = "p_clear"
                /\ events' = Append(events, Disconnected("AttributeError"))]_vars

\* A second drain in a row of an empty queue is over; nothing was processed,
\* sent or emitted by it.
C30_Witness ==
    /\ emptyDrains = 2
    /\ tick = "poll"
    /\ wpc = "p_cmd"
    /\ drains = << <<>> >>
    /\ cmds = <<>>
    /\ cmd_queue = <<>>
    /\ events = <<>>
    /\ reads = <<>>
    /\ pending = {}

\* ------------------------------------------------------------------- C31
\* The reads of a poll tick, in the order _tick_poll makes them.
PollOrder == <<GET_DATA_OP_CODE, GET_ALARMS_OP_CODE, GET_HOUR_OP_CODE>>

\* The worker is inside _process_commands.
InProcessCommands ==
    wpc \in {"p_commands", "p_clear_lock", "p_clear", "p_drain_lock", "p_drain",
             "p_drain_clear", "p_cmd", "p_cmd_read", "p_cmd_write"}

\* C31: within one poll tick the device requests come in the fixed order: the
\* requests of the drained commands, then one telemetry read (1002), one alarm
\* read (1079), one clock read (1094), then the snapshot; a read is sent only
\* after every read before it returned, and when a read fails the tick is over
\* with no later read sent and no snapshot emitted.
C31_PollTickOrder ==
    tick = "poll" =>
        /\ Len(reads) <= Len(PollOrder)
        /\ \A i \in DOMAIN reads : reads[i].op = PollOrder[i]
        /\ \A i \in 1..(Len(reads) - 1) : reads[i].returned
        /\ InProcessCommands => reads = <<>>
        /\ wpc = "p_data_wait" =>
              reads = <<>> /\ cmds = <<>> /\ pending = {} /\ call = "none"
        /\ wpc = "p_alarms_wait" => Len(reads) = 1 /\ reads[1].returned
        /\ wpc = "p_hour_wait" => Len(reads) = 2 /\ reads[2].returned
        /\ wpc \in {"p_data_wait", "p_alarms_wait", "p_hour_wait"} =>
              SelectSeq(events, IsSnapshot) = <<>>
        /\ SelectSeq(events, IsSnapshot) # <<>> =>
              /\ Len(reads) = 3
              /\ reads[3].returned
              /\ IsSnapshot(events[Len(events)])
        /\ (reads # <<>> /\ ~reads[Len(reads)].returned) =>
              /\ wpc = "idle"
              /\ SelectSeq(events, IsSnapshot) = <<>>

\* C31 witness: a poll tick drained one command and carried it out, then read
\* the telemetry and the alarms, and its clock read got no answer: the tick is
\* over without a snapshot.
C31_Witness ==
    /\ tick = "poll"
    /\ wpc = "idle"
    /\ Len(drains) = 1
    /\ Len(drains[1]) = 1
    /\ \E i \in DOMAIN log : log[i].id = drains[1][1] /\ log[i].result = "done"
    /\ Len(reads) = 3
    /\ reads[1].op = GET_DATA_OP_CODE /\ reads[1].returned
    /\ reads[2].op = GET_ALARMS_OP_CODE /\ reads[2].returned
    /\ reads[3].op = GET_HOUR_OP_CODE /\ ~reads[3].answered
    /\ SelectSeq(events, IsSnapshot) = <<>>

\* ------------------------------------------------------------------- C32
\* The step that ends a validation in failure: the client could not be
\* constructed, or the validating get_data was not made or did not return.
ValidationFails ==
    /\ Validating
    /\ wpc' = "idle"
    /\ ~(Len(reads') = 1 /\ reads'[1].returned)

\* The descriptions a failure at the worker's position can carry.
FailureDescriptions ==
    CASE wpc = "d_construct" -> {"ValueError"}
      [] wpc = "d_validate" -> {"AttributeError"}
      [] OTHER -> {"StoveTransportError", "StoveProtocolError",
                   "StoveOperationError", "ValueError"}

\* The step that emits connected.
EmitsConnected ==
    Len(SelectSeq(events', IsConnected)) > Len(SelectSeq(events, IsConnected))

\* What C32 says of every step but the timers.
ValidationOutcome ==
    /\ ValidationFails =>
          /\ Len(events') = 1
          /\ IsDisconnected(events'[1])
          /\ events'[1].arg \in FailureDescriptions
          /\ client' = "None"
          /\ ip' = ""
          /\ ~poll_timer'
    /\ EmitsConnected =>
          /\ wpc = "d_validate_wait"
          /\ Len(reads') = 1
          /\ reads'[1].op = GET_DATA_OP_CODE
          /\ reads'[1].returned
          /\ found # ""
          /\ events' = <<Connected(found)>>

\* C32 as stated: a validation that fails for any reason emits exactly one
\* disconnected event carrying the failure description and no connected
\* event, discards the client, leaves the poll timer stopped and the
\* discovery timer running; connected is emitted only after the validating
\* telemetry read succeeded and carries the discovered address.
C32_Original ==
    [][ /\ ValidationOutcome
        /\ ValidationFails => discovery_timer'
      ]_vars

\* C32 (amended): as above, with the discovery timer left running unless stop
\* has been called, in which case it is left stopped.
C32_ValidationFailure ==
    [][ /\ ValidationOutcome
        /\ ValidationFails => (discovery_timer' <=> ~stop')
      ]_vars

\* C32 witness: the validating read of a discovery tick got no answer: one
\* disconnected event, no client, the discovery timer running.
C32_Witness ==
    /\ tick = "discovery"
    /\ wpc = "idle"
    /\ ~stop
    /\ Len(reads) = 1
    /\ reads[1].op = GET_DATA_OP_CODE
    /\ ~reads[1].returned
    /\ events = <<Disconnected("StoveTransportError")>>
    /\ client = "None"
    /\ ~poll_timer
    /\ discovery_timer

\* ------------------------------------------------------------------- C33
\* C33: a tick handler that starts after stop has been set does nothing: the
\* handler returns at once (no scan, no device request in flight, no read
\* made), emits no event, and changes neither the timers nor the client, nor
\* the queue or the cached values.
C33_TickAfterStopDoesNothing ==
    [][ (stop /\ (TickDiscovery \/ TickPoll)) =>
            /\ wpc' = "idle"
            /\ ~InFlight'
            /\ reads' = <<>>
            /\ events' = <<>>
            /\ UNCHANGED <<timerVars, client, ip, cacheVars, queueVars,
                           found, cmdVars, pollVars, histVars>>
      ]_vars

\* C33 witness: a poll timer restarted by a validation that outlived stop has
\* fired, and the handler returned at once.
C33_Witness ==
    /\ stop
    /\ poll_timer
    /\ tick = "poll"
    /\ wpc = "idle"
    /\ client = "None"
    /\ events = <<>>
    /\ reads = <<>>

\* ------------------------------------------------------ NetFlame.set_hour_now
\* datetime.now(tz=timezone.utc).timestamp() at the call, as an int.
Instants == {1767780420, 1767783600}

\* Bodies the device answers the clock write and the clock read with.
ClockBodies ==
    HourBodies \cup WriteBodies
        \cup { << <<"int_rx", "=", "1", "7", "0", "0", "0", "0", "0", "0", "0", "0">> >>,
               << <<"int_rx", "=", "x">> >> }

ClockResults ==
    Replies(ClockBodies) \cup {[kind |-> "resp", status |-> 401, body |-> <<>>]}

\* The class of the exception a finished send_operation call raised.
RaisedBy(o) ==
    CASE o = "TransportError" -> "StoveTransportError"
      [] o = "ProtocolError" -> "StoveProtocolError"
      [] o = "OperationError" -> "StoveOperationError"

\* The record of the send_operation call that has just finished.
CallDone == [op |-> operation, payload |-> payload, outcome |-> outcome, resp |-> resp]

\* epoch_seconds = int(datetime.now(...).timestamp());
\* self.send_operation_params(self.SET_HOUR_OP_CODE, {"int_rx": epoch_seconds})
SetHourNow(now) ==
    /\ hpc = "idle"
    /\ spc = "idle"
    /\ hpc' = "write"
    /\ epoch_seconds' = now
    /\ hora' = <<>>
    /\ calls' = <<>>
    /\ spc' = "post"
    /\ operation' = SET_HOUR_OP_CODE
    /\ extra' = (<<"int_rx">> :> PyInt(now))
    /\ payload' = Payload(SET_HOUR_OP_CODE, (<<"int_rx">> :> PyInt(now)))
    /\ attempt' = 1
    /\ posts' = 0
    /\ sleeps' = 0
    /\ parses' = 0
    /\ raised' = 0
    /\ hist' = <<>>
    /\ outcome' = "none"
    /\ resp' = NoResponse
    /\ UNCHANGED <<retries, workerVars>>

\* The write is over, and get_hour is called whatever the write did.
SetHourWriteDoneReadsAnyway ==
    /\ hpc = "write"
    /\ spc = "done"
    /\ calls' = Append(calls, CallDone)
    /\ hpc' = "read"
    /\ spc' = "post"
    /\ operation' = GET_HOUR_OP_CODE
    /\ extra' = <<>>
    /\ payload' = Payload(GET_HOUR_OP_CODE, <<>>)
    /\ attempt' = 1
    /\ posts' = 0
    /\ sleeps' = 0
    /\ parses' = 0
    /\ raised' = 0
    /\ hist' = <<>>
    /\ outcome' = "none"
    /\ resp' = NoResponse
    /\ UNCHANGED <<hora, epoch_seconds>>
    /\ UNCHANGED <<retries, workerVars>>

\* The write is over: its exception leaves set_hour_now, or its return value
\* is dropped and get_hour calls self.send_operation(self.GET_HOUR_OP_CODE).
SetHourWriteDone ==
    /\ hpc = "write"
    /\ spc = "done"
    /\ calls' = Append(calls, CallDone)
    /\ IF outcome # "return"
       THEN /\ hpc' = "raised"
            /\ hora' = [raised |-> RaisedBy(outcome)]
            /\ spc' = "idle"
            /\ operation' = 0
            /\ extra' = <<>>
            /\ payload' = <<>>
            /\ attempt' = 0
       ELSE /\ hpc' = "read"
            /\ hora' = hora
            /\ spc' = "post"
            /\ operation' = GET_HOUR_OP_CODE
            /\ extra' = <<>>
            /\ payload' = Payload(GET_HOUR_OP_CODE, <<>>)
            /\ attempt' = 1
    /\ posts' = 0
    /\ sleeps' = 0
    /\ parses' = 0
    /\ raised' = 0
    /\ hist' = <<>>
    /\ outcome' = "none"
    /\ resp' = NoResponse
    /\ UNCHANGED <<retries, epoch_seconds, workerVars>>

\* What get_hour ends with on the finished send_operation call.
GetHourResult ==
    IF outcome # "return" THEN [raised |-> RaisedBy(outcome)]
    ELSE IF GetHourRaises(resp) # "none" THEN [raised |-> GetHourRaises(resp)]
    ELSE [returned |-> GetHour(resp)]

\* The read of get_hour is over: set_hour_now returns what get_hour returns,
\* or get_hour's exception leaves it.
SetHourReadDone ==
    /\ hpc = "read"
    /\ spc = "done"
    /\ calls' = Append(calls, CallDone)
    /\ hora' = GetHourResult
    /\ hpc' = IF DOMAIN GetHourResult = {"returned"} THEN "returned" ELSE "raised"
    /\ spc' = "idle"
    /\ operation' = 0
    /\ extra' = <<>>
    /\ payload' = <<>>
    /\ attempt' = 0
    /\ posts' = 0
    /\ sleeps' = 0
    /\ parses' = 0
    /\ raised' = 0
    /\ hist' = <<>>
    /\ outcome' = "none"
    /\ resp' = NoResponse
    /\ UNCHANGED <<retries, epoch_seconds, workerVars>>

\* The frame of set_hour_now is gone.
SetHourEnd ==
    /\ hpc \in {"returned", "raised"}
    /\ hpc' = "idle"
    /\ epoch_seconds' = 0
    /\ hora' = <<>>
    /\ calls' = <<>>
    /\ UNCHANGED <<retries, spc, operation, extra, payload, attempt, posts,
                   sleeps, parses, raised, hist, outcome, resp, workerVars>>

NextClock ==
    \/ \E now \in Instants : SetHourNow(now)
    \/ \E nr \in ClockResults : Post(nr)
    \/ Sleep
    \/ SetHourWriteDone
    \/ SetHourReadDone
    \/ SetHourEnd

\* One NetFlame client and its set_hour_now.
SpecClock == InitClient /\ [][NextClock]_vars

\* ------------------------------------------------------------------- C34
\* What get_hour makes of a finished call c of the clock read.
HourOf(c) ==
    IF c.outcome # "return" THEN [raised |-> RaisedBy(c.outcome)]
    ELSE IF GetHourRaises(c.resp) # "none" THEN [raised |-> GetHourRaises(c.resp)]
    ELSE [returned |-> GetHour(c.resp)]

\* The form fields of the clock write for the instant of the call.
ClockWriteFields ==
    (<<"idOperacion">> :> IntStr(SET_HOUR_OP_CODE))
        @@ (<<"int_rx">> :> IntStr(epoch_seconds))

\* C34: the clock write sends operation 1095 with the current instant and
\* then performs a fresh clock read (1094); what set_hour_now ends with is
\* what get_hour made of that read, never of the write acknowledgement; and
\* when the write fails no read is sent.
C34_ClockWriteThenRead ==
    /\ hpc = "write" =>
          /\ epoch_seconds \in Instants
          /\ calls = <<>>
          /\ operation = SET_HOUR_OP_CODE
          /\ payload = ClockWriteFields
    /\ hpc = "read" =>
          /\ Len(calls) = 1
          /\ calls[1].outcome = "return"
          /\ operation = GET_HOUR_OP_CODE
          /\ payload = (<<"idOperacion">> :> IntStr(GET_HOUR_OP_CODE))
    /\ calls # <<>> =>
          /\ calls[1].op = SET_HOUR_OP_CODE
          /\ calls[1].payload = ClockWriteFields
    /\ (calls # <<>> /\ calls[1].outcome # "return") =>
          /\ Len(calls) = 1
          /\ hpc = "raised"
          /\ hora = [raised |-> RaisedBy(calls[1].outcome)]
          /\ operation # GET_HOUR_OP_CODE
    /\ Len(calls) <= 2
    /\ Len(calls) = 2 =>
          /\ calls[1].outcome = "return"
          /\ calls[2].op = GET_HOUR_OP_CODE
          /\ hpc \in {"returned", "raised"}
          /\ hora = HourOf(calls[2])
    /\ hpc = "returned" =>
          /\ Len(calls) = 2
          /\ hora = [returned |-> GetHour(calls[2].resp)]

\* C34 witness: the device acknowledged the write with a body that carries a
\* clock value and answered the read without one: the call ended with the
\* OperationError of the read.
C34_Witness ==
    /\ hpc = "raised"
    /\ Len(calls) = 2
    /\ calls[1].op = SET_HOUR_OP_CODE
    /\ calls[1].payload[<<"int_rx">>] = <<"1", "7", "6", "7", "7", "8", "3", "6", "0", "0">>
    /\ calls[1].outcome = "return"
    /\ <<"int_rx">> \in DOMAIN calls[1].resp.params
    /\ calls[2].op = GET_HOUR_OP_CODE
    /\ calls[2].outcome = "return"
    /\ <<"int_rx">> \notin DOMAIN calls[2].resp.params
    /\ hora = [raised |-> "StoveOperationError"]

\* ------------------------------------------------------------------- C35
\* The device answered with a success response the client returns to its
\* caller (status 200, a body the parser accepts, no error code).
Acknowledged(nr, op) == ~SendRaises(nr, op)

\* The response to nr has no line for the field.
Lacks(nr, op, field) == <<field>> \notin DOMAIN ParseResponse(op, nr.body).params

\* C35: a clock read whose response lacks int_rx fails with OperationError,
\* and in a poll tick that failure ends the tick like any other read failure
\* (one disconnected event, the client discarded, the poll timer stopped, the
\* discovery timer started); a telemetry response that lacks a field is read
\* with the default of that field and get_data returns.
C35_MissingEpochFails ==
    [][ /\ \A o \in HourOutcomes :
              (/\ PollHourReturns(o)
               /\ Acknowledged(o.reply, GET_HOUR_OP_CODE)
               /\ Lacks(o.reply, GET_HOUR_OP_CODE, "int_rx")) =>
                  /\ ~o.returns
                  /\ o.error = "StoveOperationError"
                  /\ ~reads'[Len(reads')].returned
                  /\ events' = <<Disconnected("StoveOperationError")>>
                  /\ wpc' = "idle"
                  /\ client' = "None"
                  /\ ip' = ""
                  /\ ~poll_timer'
                  /\ discovery_timer'
        /\ \A o \in DataOutcomes :
              (/\ PollDataReturns(o)
               /\ Acknowledged(o.reply, GET_DATA_OP_CODE)
               /\ Lacks(o.reply, GET_DATA_OP_CODE, "estado")
               /\ Lacks(o.reply, GET_DATA_OP_CODE, "modo_operacion")
               /\ Lacks(o.reply, GET_DATA_OP_CODE, "on_off")
               /\ Lacks(o.reply, GET_DATA_OP_CODE, "consigna_potencia")
               /\ Lacks(o.reply, GET_DATA_OP_CODE, "consigna_temperatura")
               /\ Lacks(o.reply, GET_DATA_OP_CODE, "temperatura")) =>
                  /\ o.returns
                  /\ reads'[Len(reads')].returned
                  /\ o.data.state.state = -1
                  /\ o.data.operativeMode.mode = -1
                  /\ o.data.statusOn = FALSE
                  /\ o.data.powerSetpoint = 0
                  /\ o.data.temperatureSetpoint = 0
                  /\ o.data.currentTemperature = 0
                  /\ client = "NetFlame" =>
                        (events' = events /\ wpc' = "p_alarms_wait")
        /\ \A o \in DataOutcomes :
              (/\ PollDataReturns(o)
               /\ Acknowledged(o.reply, GET_DATA_OP_CODE)
               /\ Lacks(o.reply, GET_DATA_OP_CODE, "consigna_temperatura")
               /\ Lacks(o.reply, GET_DATA_OP_CODE, "temperatura")
               /\ ~Lacks(o.reply, GET_DATA_OP_CODE, "consigna_potencia")
               /\ o.returns) =>
                  /\ o.data.temperatureSetpoint = 0
                  /\ o.data.currentTemperature = 0
      ]_vars

\* C35 witness: a poll tick read an empty telemetry body as the defaults, went
\* on, and ended with the OperationError of a clock response without int_rx.
C35_Witness ==
    /\ tick = "poll"
    /\ wpc = "idle"
    /\ Len(reads) = 3
    /\ reads[1].returned
    /\ reads[1].value.state.state = -1
    /\ reads[1].value.powerSetpoint = 0
    /\ reads[2].returned
    /\ reads[3].op = GET_HOUR_OP_CODE
    /\ ~reads[3].answered
    /\ events = <<Disconnected("StoveOperationError")>>
    /\ client = "None"
    /\ discovery_timer

\* ------------------------------------------------- NetFlame.get_data, alone
\* Raw firmware states the device reports in `estado`.
RawStates == (0 - 21)..12

\* The text of an integer in a response body.
IntText(n) == IF n < 0 THEN <<"-">> \o IntStr(0 - n) ELSE IntStr(n)

\* The telemetry body of the scenario: estado=7, on_off=1,
\* consigna_temperatura=21.5, temperatura=20.8, modo_operacion=1.
ScenarioBody ==
    << <<"estado", "=", "7">>, <<"on_off", "=", "1">>,
       <<"consigna_temperatura", "=", "2", "1", ".", "5">>,
       <<"temperatura", "=", "2", "0", ".", "8">>,
       <<"modo_operacion", "=", "1">> >>

\* Telemetry bodies: one per raw state, one without `estado`, the scenario.
TelemetryBodies ==
    { << <<"estado", "=">> \o IntText(v), <<"on_off", "=", "0">> >> : v \in RawStates }
        \cup { << <<"on_off", "=", "1">> >>, ScenarioBody }

\* data = self.get_data(): resp = self.send_operation(self.GET_DATA_OP_CODE)
GetDataCall ==
    /\ spc = "idle"
    /\ spc' = "post"
    /\ operation' = GET_DATA_OP_CODE
    /\ extra' = <<>>
    /\ payload' = Payload(GET_DATA_OP_CODE, <<>>)
    /\ attempt' = 1
    /\ posts' = 0
    /\ sleeps' = 0
    /\ parses' = 0
    /\ raised' = 0
    /\ hist' = <<>>
    /\ outcome' = "none"
    /\ resp' = NoResponse
    /\ data' = NoData
    /\ stoveInternalState' = -1
    /\ stoveInternalOperativeMode' = -1
    /\ UNCHANGED <<retries, clockVars, cfgVars, stop, client, ip, queueVars,
                   timerVars, wpc, found, cmdVars, alarms, tick, events, session, reads,
                   histVars, drains>>

\* send_operation is over: get_data decodes the response (the cache written,
\* the Stove_Data returned), or an exception leaves it.
GetDataEnd ==
    /\ spc = "done"
    /\ operation = GET_DATA_OP_CODE
    /\ spc' = "idle"
    /\ IF outcome = "return" /\ CacheWritten(resp)
       THEN /\ stoveInternalState' = CachedState(resp)
            /\ stoveInternalOperativeMode' = CachedMode(resp)
       ELSE UNCHANGED cacheVars
    /\ data' = IF outcome = "return" /\ GetDataRaisesAt(resp) = "none"
               THEN StoveData(resp) ELSE NoData
    /\ UNCHANGED <<retries, operation, extra, payload, attempt, posts, sleeps,
                   parses, raised, hist, outcome, resp, clockVars, cfgVars,
                   stop, client, ip, queueVars, timerVars, wpc, found, cmdVars,
                   alarms, tick, events, session, reads, histVars, drains>>

NextDecode ==
    \/ GetDataCall
    \/ \E nr \in Replies(TelemetryBodies) : Post(nr)
    \/ Sleep
    \/ GetDataEnd

\* One NetFlame client and its get_data.
SpecDecode == InitClient /\ [][NextDecode]_vars

\* ------------------------------------------------------------------- C36
\* The table of the normalized states, as the specification gives it.
NormalizedStates ==
    {"POWER_OFF", "PREHEAT", "HEATING", "POWERED_ON", "WAINTING_FOR_POWER_OFF",
     "WAITING_FOR_PROGRAM_LOAD", "ERROR_STATE", "INVALID_STATE"}

Normalized(v) ==
    IF v = 0 THEN "POWER_OFF"
    ELSE IF v \in {1, 2, 3, 4, 10} THEN "PREHEAT"
    ELSE IF v \in {5, 6} THEN "HEATING"
    ELSE IF v = 7 THEN "POWERED_ON"
    ELSE IF v \in {8, 11, 0 - 3} THEN "WAINTING_FOR_POWER_OFF"
    ELSE IF v = 0 - 20 THEN "WAITING_FOR_PROGRAM_LOAD"
    ELSE IF v = 0 - 4 THEN "ERROR_STATE"
    ELSE "INVALID_STATE"

\* get_data has decoded a success response of the device.
Decoded == spc = "idle" /\ operation = GET_DATA_OP_CODE /\ outcome = "return"

\* C36: telemetry decoding is total over the raw state: for every raw state
\* integer the device reports get_data returns, with the normalized state of
\* the table; every value outside the table, -1 included, and a missing
\* `estado` give the invalid state; and the scenario body decodes to power on,
\* powered on (raw 7), setpoint 21.5, temperature 20.8, temperature mode.
C36_StateDecodingTotal ==
    Decoded =>
        /\ data # NoData
        /\ data.state.publicState \in NormalizedStates
        /\ data.state.publicState = Normalized(data.state.state)
        /\ data.state.state = stoveInternalState
        /\ \A v \in RawStates :
              (<<"estado">> \in DOMAIN resp.params
                  /\ resp.params[<<"estado">>] = IntText(v)) =>
                  /\ data.state.state = v
                  /\ data.state.publicState = Normalized(v)
        /\ <<"estado">> \notin DOMAIN resp.params =>
              /\ data.state.state = 0 - 1
              /\ data.state.publicState = "INVALID_STATE"
        /\ resp.raw = ScenarioBody =>
              /\ data.statusOn
              /\ data.state.state = 7
              /\ data.state.publicState = "POWERED_ON"
              /\ data.temperatureSetpoint = 215
              /\ data.currentTemperature = 208
              /\ data.operativeMode.mode = 1
              /\ data.operativeMode.description = "Temperatura"

\* C36 witness: the raw state -3 has been decoded to "waiting for power off".
C36_Witness ==
    /\ Decoded
    /\ <<"estado">> \in DOMAIN resp.params
    /\ resp.params[<<"estado">>] = <<"-", "3">>
    /\ data.state.state = 0 - 3
    /\ data.state.publicState = "WAINTING_FOR_POWER_OFF"

\* ------------------------------------------------- the constructor on its own
\* StoveClient(...): the authentication block either raises ValueError, and
\* then no object exists, or leaves a client behind.
ClientInit ==
    /\ spc = "idle"
    /\ client = "None"
    /\ outcome = "none"
    /\ IF ClientInitRaises(auth_mode, username, password)
       THEN /\ outcome' = "ValueError"
            /\ UNCHANGED client
       ELSE /\ client' = "NetFlame"
            /\ UNCHANGED outcome
    /\ UNCHANGED <<retries, spc, operation, extra, payload, attempt, posts,
                   sleeps, parses, raised, hist, resp, clockVars, cfgVars,
                   stop, cacheVars, ip, queueVars, timerVars, wpc, found,
                   cmdVars, pollVars, tick, events, session, reads, histVars, drains>>

\* A request needs the object the constructor returned.
ClientRequest(op, ex) ==
    /\ client = "NetFlame"
    /\ SendBegin(op, ex)

InitConstruct ==
    /\ InitSend
    /\ InitWorker
    /\ retries = ClientRetries(DefaultRetries)
    /\ auth_mode \in AuthModes

NextConstruct ==
    \/ ClientInit
    \/ \E op \in SendOps, ex \in SendExtras : ClientRequest(op, ex)
    \/ \E nr \in NetResults : Post(nr)
    \/ Sleep
    \/ SendEnd

SpecConstruct == InitConstruct /\ [][NextConstruct]_vars

\* ------------------------------------------------------------------------ C37
IncompleteCredentials ==
    auth_mode \in {"basic", "digest"} /\ (username = "" \/ password = {})

UnknownMode == auth_mode \notin {"basic", "digest", "none"}

RequestSent == spc # "idle" \/ posts > 0 \/ hist # <<>> \/ operation # 0

\* C37: with basic or digest authentication and a missing username or
\* password, and with an unknown authentication mode, the construction fails
\* (ValueError) and no request is ever sent; a client that exists has a known
\* mode and, for basic and digest, both credentials; a request is sent only by
\* a client that exists.
C37_IncompleteCredentialsFailAtConstruction ==
    /\ (IncompleteCredentials \/ UnknownMode)
          => /\ client = "None"
             /\ ~RequestSent
             /\ outcome \in {"none", "ValueError"}
    /\ client = "NetFlame" => ~IncompleteCredentials /\ ~UnknownMode
    /\ RequestSent => client = "NetFlame"
    /\ outcome = "ValueError" => IncompleteCredentials \/ UnknownMode

\* A digest construction without its password has failed, nothing sent.
C37_Witness ==
    /\ auth_mode = "digest"
    /\ password = {}
    /\ outcome = "ValueError"
    /\ client = "None"
    /\ posts = 0

\* ------------------------------------------------------------------------ C38
\* A step of the worker emits a connected event / a disconnected event / a
\* snapshot event (the one its handler emitted last).
EmitsEvent == Len(events') = Len(events) + 1

EmitsOf(Kind(_)) == EmitsEvent /\ Kind(events'[Len(events')])

\* C38: a connected event is emitted only when no connected event is waiting
\* for its disconnected event (between two connected events there is a
\* disconnected one), and a snapshot event is emitted only after a connected
\* event that no disconnected event has followed, with the address of that
\* connected event.
C38_EventsOrderedPerSession ==
    [][ /\ EmitsOf(IsConnected) => session = "" /\ session' = events'[Len(events')].arg
        /\ EmitsOf(IsDisconnected) => session' = ""
        /\ EmitsOf(IsSnapshot) =>
              /\ session # ""
              /\ events'[Len(events')].arg.ip = session
        /\ ~EmitsOf(IsConnected) /\ ~EmitsOf(IsDisconnected) => UNCHANGED session
      ]_vars

\* C38 witness: a second session: the handler has just emitted connected, and
\* the log holds a command that a poll tick of an earlier session, since
\* disconnected, was through with.
C38_Witness ==
    /\ session # ""
    /\ LastConnected
    /\ tick = "discovery"
    /\ wpc = "idle"
    /\ log # <<>>

\* ------------------------------------------------------------------------ C39
\* C39: once stop has returned (the flag is set), no step of the worker emits
\* a connected event or a snapshot event, whatever the handler in progress
\* was doing when stop ran.
C39_NoConnectedOrSnapshotAfterStop ==
    [][ stop => ~EmitsOf(IsConnected) /\ ~EmitsOf(IsSnapshot) ]_vars

\* ------------------------------------------------------------------------ C40
\* Write w of method `method` with argument val is what the telemetry read
\* with outcome o allows: the guard holds of the state and mode that read
\* reported, the setpoint is the one that read reported, moved and clamped.
ComputedFrom(w, method, val, o) ==
    CASE method = "power_on" ->
            w = Write(SET_ON_OFF_OP_CODE, "on_off", 1) /\ o.state = 0
      [] method = "power_off" ->
            w = Write(SET_ON_OFF_OP_CODE, "on_off", 0) /\ o.state = 7
      [] method = "increase_temperature" ->
            /\ w.op = SET_TEMPERATURE_OP_CODE
            /\ w.value \in {o.data.temperatureSetpoint + val, 400}
            /\ w.value <= 400
      [] method = "decrease_temperature" ->
            /\ w.op = SET_TEMPERATURE_OP_CODE
            /\ w.value \in {o.data.temperatureSetpoint - val, 120}
            /\ w.value >= 120
      [] method = "increase_power" ->
            /\ w.op = SET_POWER_OP_CODE
            /\ w.value \in {o.data.powerSetpoint + 1, 9}
            /\ w.value <= 9
      [] method = "decrease_power" ->
            /\ w.op = SET_POWER_OP_CODE
            /\ w.value \in {o.data.powerSetpoint - 1, 1}
            /\ w.value >= 1
      [] method \in {"set_power_mode", "set_temperature_mode",
                     "set_emergency_mode"} ->
            /\ w.op = SET_OPERATIVE_MODE_OP_CODE
            /\ w.value = (CASE method = "set_power_mode" -> 0
                            [] method = "set_temperature_mode" -> 1
                            [] OTHER -> 2)
            /\ o.mode \notin {w.value, -1}
      [] OTHER -> FALSE

\* C40: a write of a command starts only in the step in which the telemetry
\* read of that same command returns, and it is computed from what that read
\* reported; it stays the write of that command until it is over; a command
\* whose telemetry read fails sends no write and is logged as failed.
C40_WriteFollowsItsRead ==
    [][ /\ (wpc' = "p_cmd_write" /\ wpc # "p_cmd_write") =>
              /\ wpc = "p_cmd_read"
              /\ UNCHANGED <<cmds, call>>
              /\ Cardinality(pending') = 1
              /\ \E o \in DataOutcomes :
                    /\ o.returns
                    /\ CommandReadReturns(o)
                    /\ \A w \in pending' :
                          ComputedFrom(w, call, Head(cmds).val, o)
        /\ (wpc' = "p_cmd_write" /\ wpc = "p_cmd_write") =>
              UNCHANGED <<cmds, call, pending>>
        /\ (wpc' = "p_cmd_read" /\ wpc # "p_cmd_read") =>
              wpc = "p_cmd" /\ pending' = {} /\ UNCHANGED cmds
        /\ wpc' # "p_cmd_write" => pending' = {}
        /\ \A o \in DataOutcomes :
              (CommandReadReturns(o) /\ ~o.returns) =>
                  /\ wpc' = "p_cmd"
                  /\ pending' = {}
                  /\ log' = Append(log, [id |-> Head(cmds).id,
                                         result |-> "failed"])
      ]_vars

\* C40 witness: the telemetry read of a temperature command returned a
\* setpoint and the write of the raised setpoint is on its way.
C40_Witness ==
    /\ wpc = "p_cmd_write"
    /\ call = "increase_temperature"
    /\ \E w \in pending : w.op = SET_TEMPERATURE_OP_CODE /\ w.value > 0

====
